---- MODULE Spec2Model ----
(***************************************************************************)
(* TeamPulse: calendar normalisation, availability, utilization and task   *)
(* reassignment (normalizer.py, reassignment.py, api.py).                  *)
(*                                                                         *)
(* Python values are modelled as follows.                                  *)
(*   list            -> sequence                                           *)
(*   dict / dataclass-> record (a function over its string keys)           *)
(*   set             -> set                                                *)
(*   aware datetime  -> integer, minutes since 2026-03-01T00:00Z           *)
(*   date            -> integer, days since 2026-03-01                     *)
(*   str(int)        -> Str, the decimal rendering                         *)
(* The store file EmployeeDatabase.json is the variable db; a read of the  *)
(* file and a write of the file are one step each.                         *)
(***************************************************************************)
EXTENDS Integers, Sequences, FiniteSets, TLC

VARIABLES db, events, pc, local, outcome, clock, response

vars == <<db, events, pc, local, outcome, clock, response>>

(***************************************************************************)
(* Generic helpers for Python built-ins.                                   *)
(***************************************************************************)

\* dict.get(key, default)
Get(d, key, default) == IF key \in DOMAIN d THEN d[key] ELSE default

\* d[key] = val on a dict, and {**d, key: val}
Put(d, key, val) == [k \in (DOMAIN d) \cup {key} |-> IF k = key THEN val ELSE d[k]]

\* truthiness of a string: the empty string is falsy
Truthy(s) == s # ""

Digits == <<"0", "1", "2", "3", "4", "5", "6", "7", "8", "9">>

RECURSIVE NatStr(_)
NatStr(n) == IF n < 10 THEN Digits[n + 1] ELSE NatStr(n \div 10) \o Digits[(n % 10) + 1]

\* str(n) for an integer n
Str(n) == IF n < 0 THEN "-" \o NatStr(0 - n) ELSE NatStr(n)

Min(a, b) == IF a <= b THEN a ELSE b

Max(a, b) == IF a >= b THEN a ELSE b

MinutesPerDay == 24 * 60

\* datetime.date() of a UTC instant
DateOf(t) == t \div MinutesPerDay

\* datetime.isoformat(): the text "<date>T<hh>:<mm>:00+00:00", kept as its three numbers
IsoFormat(t) == <<DateOf(t), (t % MinutesPerDay) \div 60, t % 60>>

\* NormalizedEvent.to_dict
to_dict(ev) == [ev EXCEPT !.start_utc = IsoFormat(ev.start_utc), !.end_utc = IsoFormat(ev.end_utc)]

(***************************************************************************)
(* normalizer.py: timestamps. A timestamp string is the sequence of its    *)
(* characters; a call that raises returns Raised.                          *)
(***************************************************************************)

Raised == [ok |-> FALSE]

Returned(v) == [ok |-> TRUE, value |-> v]

IsDigit(c) == \E i \in 1..10 : Digits[i] = c

DigitOf(c) == (CHOOSE i \in 1..10 : Digits[i] = c) - 1

AllDigits(s) == Len(s) > 0 /\ \A i \in 1..Len(s) : IsDigit(s[i])

RECURSIVE DigitsValue(_)
DigitsValue(s) ==
    IF s = <<>> THEN 0 ELSE 10 * DigitsValue(SubSeq(s, 1, Len(s) - 1)) + DigitOf(s[Len(s)])

\* str.strip() for blanks
RECURSIVE strip(_)
strip(s) ==
    IF s = <<>> THEN s
    ELSE IF Head(s) = " " THEN strip(Tail(s))
    ELSE IF s[Len(s)] = " " THEN strip(SubSeq(s, 1, Len(s) - 1))
    ELSE s

\* s[a:b] with 0 <= a <= b, as Python slices (positions from 0, b exclusive, cut at the end)
slice(s, a, b) == SubSeq(s, a + 1, Min(b, Len(s)))

\* int(s): blanks around, an optional sign, decimal digits
int(s) ==
    LET t == strip(s)
        signed == t # <<>> /\ Head(t) \in {"+", "-"}
        digits == IF signed THEN Tail(t) ELSE t
    IN  IF ~AllDigits(digits) THEN Raised
        ELSE Returned(IF signed /\ Head(t) = "-" THEN 0 - DigitsValue(digits) ELSE DigitsValue(digits))

\* str.split(sep) for a one-character separator
RECURSIVE split(_, _)
split(s, sep) ==
    LET at == {i \in 1..Len(s) : s[i] = sep}
    IN  IF at = {} THEN <<s>>
        ELSE LET i == CHOOSE k \in at : \A j \in at : k <= j
             IN  <<SubSeq(s, 1, i - 1)>> \o split(SubSeq(s, i + 1, Len(s)), sep)

IsLeap(y) == (y % 4 = 0 /\ y % 100 # 0) \/ y % 400 = 0

DaysInMonth(y, m) ==
    IF m = 2 THEN (IF IsLeap(y) THEN 29 ELSE 28)
    ELSE IF m \in {4, 6, 9, 11} THEN 30 ELSE 31

\* days from 0000-03-01 to the date, in the proleptic Gregorian calendar
DaysFromCivil(y, m, d) ==
    LET yy == IF m <= 2 THEN y - 1 ELSE y
        era == yy \div 400
        yoe == yy - era * 400
        doy == (153 * (IF m > 2 THEN m - 3 ELSE m + 9) + 2) \div 5 + d - 1
    IN  era * 146097 + yoe * 365 + yoe \div 4 - yoe \div 100 + doy

\* datetime(y, m, d, hh, mm, ss): the minutes since 2026-03-01T00:00 (seconds are
\* checked and then dropped: the model's instants are whole minutes)
datetime(y, m, d, hh, mm, ss) ==
    IF /\ y \in 1..9999 /\ m \in 1..12 /\ d \in 1..DaysInMonth(y, m)
       /\ hh \in 0..23 /\ mm \in 0..59 /\ ss \in 0..59
    THEN Returned((DaysFromCivil(y, m, d) - DaysFromCivil(2026, 3, 1)) * MinutesPerDay + hh * 60 + mm)
    ELSE Raised

\* the value of a field of exactly n digits, -1 if it is not one
Field(s, n) == IF Len(s) = n /\ AllDigits(s) THEN DigitsValue(s) ELSE -1

\* the value of a field of one or two digits (strptime's %m %d %H %M %S), -1 if it is not one
ShortField(s) == IF Len(s) \in {1, 2} /\ AllDigits(s) THEN DigitsValue(s) ELSE -1

\* the time part of datetime.fromisoformat (Python 3.11): HH, HH:MM, HH:MM:SS and
\* HH:MM:SS.f..., as <<hh, mm, ss>>, <<>> if it is none of them
IsoTime(t) ==
    LET whole == IF Len(t) > 8 THEN SubSeq(t, 1, 8) ELSE t
        fraction == IF Len(t) > 8 THEN SubSeq(t, 9, Len(t)) ELSE <<>>
        okFraction == fraction = <<>>
                        \/ (Head(fraction) \in {".", ","} /\ AllDigits(Tail(fraction)))
        parts == split(whole, ":")
    IN  IF ~okFraction \/ Len(whole) \notin {2, 5, 8} \/ Len(parts) # (Len(whole) + 1) \div 3
        THEN <<>>
        ELSE LET hh == Field(parts[1], 2)
                 mm == IF Len(parts) > 1 THEN Field(parts[2], 2) ELSE 0
                 ss == IF Len(parts) > 2 THEN Field(parts[3], 2) ELSE 0
             IN  IF hh < 0 \/ mm < 0 \/ ss < 0 THEN <<>> ELSE <<hh, mm, ss>>

\* datetime.fromisoformat (Python 3.11) on YYYY-MM-DD, on YYYY-MM-DD<sep><time> and on
\* the latter with a Z suffix, whose UTC the callers replace
fromisoformat(s) ==
    LET date_part == SubSeq(s, 1, Min(10, Len(s)))
        y == Field(slice(date_part, 0, 4), 4)
        m == Field(slice(date_part, 5, 7), 2)
        d == Field(slice(date_part, 8, 10), 2)
        okDate == /\ Len(date_part) = 10 /\ date_part[5] = "-" /\ date_part[8] = "-"
                  /\ y >= 0 /\ m >= 0 /\ d >= 0
        rest == IF Len(s) > 11 THEN SubSeq(s, 12, Len(s)) ELSE <<>>
        time_part == IF rest # <<>> /\ rest[Len(rest)] = "Z"
                     THEN SubSeq(rest, 1, Len(rest) - 1) ELSE rest
        hms == IsoTime(time_part)
    IN  IF ~okDate \/ Len(s) = 11 THEN Raised
        ELSE IF Len(s) = 10 THEN datetime(y, m, d, 0, 0, 0)
        ELSE IF hms = <<>> THEN Raised
        ELSE datetime(y, m, d, hms[1], hms[2], hms[3])

\* datetime.strptime(s, "%Y-%m-%dT%H:%M:%S"): four digits of year, then fields of one or
\* two digits
strptime(s) ==
    LET halves == split(s, "T")
        ymd == split(halves[1], "-")
        hms == IF Len(halves) = 2 THEN split(halves[2], ":") ELSE <<>>
    IN  IF Len(halves) # 2 \/ Len(ymd) # 3 \/ Len(hms) # 3 THEN Raised
        ELSE LET y == Field(ymd[1], 4)
                 m == ShortField(ymd[2])
                 d == ShortField(ymd[3])
                 hh == ShortField(hms[1])
                 mm == ShortField(hms[2])
                 ss == ShortField(hms[3])
             IN  IF y < 0 \/ m < 0 \/ d < 0 \/ hh < 0 \/ mm < 0 \/ ss < 0 THEN Raised
                 ELSE datetime(y, m, d, hh, mm, ss)

\* lines 51-61
TZ_OFFSETS ==
    [n \in {"Pacific Standard Time", "Pacific Daylight Time", "Mountain Standard Time",
            "Mountain Daylight Time", "Central Standard Time", "Central Daylight Time",
            "Eastern Standard Time", "Eastern Daylight Time", "UTC"} |->
        CASE n = "Pacific Standard Time" -> -8
          [] n = "Pacific Daylight Time" -> -7
          [] n = "Mountain Standard Time" -> -7
          [] n = "Mountain Daylight Time" -> -6
          [] n = "Central Standard Time" -> -6
          [] n = "Central Daylight Time" -> -5
          [] n = "Eastern Standard Time" -> -5
          [] n = "Eastern Daylight Time" -> -4
          [] OTHER -> 0]

\* lines 64-66: the offset of a zone name, in minutes
ms_tz_to_offset(tz_name) == 60 * Get(TZ_OFFSETS, tz_name, 0)

\* the loop of lines 84-105 ends without a return
NoOffset == [ok |-> FALSE, offset |-> FALSE]

\* lines 84-105: the string has a "T" and, after the first character of what follows it,
\* a "+" or "-": the first such sign starts the offset. Gives NoOffset when the code goes
\* on to lines 107-119 (no such sign, or what precedes it is not a date-time).
ParseWithOffset(s) ==
    LET ts == {i \in 1..Len(s) : s[i] = "T"}
        t == CHOOSE i \in ts : \A j \in ts : i <= j
        body == SubSeq(s, 1, t - 1)
        tail == SubSeq(s, t + 1, Len(s))
        signs == {i \in 2..Len(tail) : tail[i] \in {"+", "-"}}
        i == CHOOSE k \in signs : \A j \in signs : k <= j
        offset_str == SubSeq(tail, i, Len(tail))
        dt_naive == fromisoformat(body \o <<"T">> \o SubSeq(tail, 1, i - 1))
        sign == IF tail[i] = "+" THEN 1 ELSE -1
        parts == split(Tail(offset_str), ":")
        oh == int(parts[1])
        om == IF Len(parts) > 1 THEN int(parts[2]) ELSE Returned(0)
    IN  IF ts = {} \/ signs = {} THEN NoOffset
        ELSE IF ~dt_naive.ok THEN NoOffset
        ELSE IF ~oh.ok \/ ~om.ok THEN Raised
        ELSE LET tz_offset == sign * (60 * oh.value + om.value)
             IN  \* timezone() takes offsets strictly between -24 and 24 hours
                 IF tz_offset <= 0 - MinutesPerDay \/ tz_offset >= MinutesPerDay THEN Raised
                 ELSE Returned(dt_naive.value - tz_offset)

\* mutant: a date-only string is midnight in the hinted zone
parse_dt_to_utc_DateLocalized(dt_str, tz_hint) ==
    LET s == strip(dt_str)
        naive == fromisoformat(s)
    IN  IF ~naive.ok THEN Raised
        ELSE Returned(naive.value - (IF tz_hint = "None" THEN 0 ELSE ms_tz_to_offset(tz_hint)))

\* mutant: the hint is applied to a string that carries its own offset too
parse_dt_to_utc_HintOverOffset(dt_str, tz_hint) ==
    LET s == strip(dt_str)
        naive == fromisoformat(SubSeq(s, 1, Min(19, Len(s))))
    IN  IF ~naive.ok THEN Raised
        ELSE Returned(naive.value - (IF tz_hint = "None" THEN 0 ELSE ms_tz_to_offset(tz_hint)))

\* lines 69-119; tz_hint is a zone name, "" or None
parse_dt_to_utc(dt_str, tz_hint) ==
    LET s == strip(dt_str)
    IN  IF Len(s) = 10
        THEN LET y == int(slice(s, 0, 4))
                 m == int(slice(s, 5, 7))
                 d == int(slice(s, 8, 10))
             IN  IF ~y.ok \/ ~m.ok \/ ~d.ok THEN Raised
                 ELSE datetime(y.value, m.value, d.value, 0, 0, 0)
        ELSE LET with_offset == ParseWithOffset(s)
             IN  IF with_offset # NoOffset THEN with_offset
                 ELSE LET first == fromisoformat(s)
                          dt_naive == IF first.ok THEN first ELSE strptime(s)
                      IN  IF ~dt_naive.ok THEN Raised
                          ELSE IF tz_hint # "None" /\ tz_hint # ""
                          THEN Returned(dt_naive.value - ms_tz_to_offset(tz_hint))
                          ELSE dt_naive

(***************************************************************************)
(* normalizer.py: the three normalizers. A payload is the list of its      *)
(* items; a JSON member that is absent or null is a key the record lacks.  *)
(* Timestamps and titles are sequences of characters, ids and emails are   *)
(* strings. The result of an item is Kept(event), Skipped (continue) or    *)
(* Raised (an exception that leaves the loop).                             *)
(***************************************************************************)

Skipped == [ok |-> TRUE, skipped |-> TRUE]

Kept(ev) == [ok |-> TRUE, skipped |-> FALSE, event |-> ev]

\* {} of (x.get(key) or {})
EmptyObject == <<>>

NormalizedEvent(event_id, source, employee_id, employee_email, title, availability, start_utc, end_utc, is_all_day) ==
    [event_id |-> event_id, source |-> source, employee_id |-> employee_id,
     employee_email |-> employee_email, title |-> title, availability |-> availability,
     start_utc |-> start_utc, end_utc |-> end_utc, is_all_day |-> is_all_day]

\* the for loop of a normalizer: the kept events in payload order, or the exception
RECURSIVE Collect(_)
Collect(results) ==
    IF results = <<>> THEN Returned(<<>>)
    ELSE LET first == Head(results)
             rest == Collect(Tail(results))
         IN  IF ~first.ok THEN Raised
             ELSE IF ~rest.ok THEN Raised
             ELSE IF first.skipped THEN rest
             ELSE Returned(<<first.event>> \o rest.value)

\* lines 153-154: except Exception: continue, around the two parsed timestamps
try_except(start_utc, end_utc) ==
    IF ~start_utc.ok \/ ~end_utc.ok THEN Skipped
    ELSE Kept(<<start_utc.value, end_utc.value>>)

\* line 152: end_utc, given the parsed start
end_utc_of(start_utc, end_str, tz_hint) ==
    IF end_str # <<>> THEN parse_dt_to_utc(end_str, tz_hint) ELSE start_utc

\* the two parsed timestamps with no handler around them
no_try(start_utc, end_utc) ==
    IF ~start_utc.ok \/ ~end_utc.ok THEN Raised
    ELSE Kept(<<start_utc.value, end_utc.value>>)

\* lines 151-152 with the parsed start at hand
no_try_from(start_utc, end_str, tz_hint) ==
    no_try(start_utc, end_utc_of(start_utc, end_str, tz_hint))

\* mutant: the two timestamps are parsed outside the try block
Timestamps_NoTry(start_str, end_str, tz_hint) ==
    no_try_from(parse_dt_to_utc(start_str, tz_hint), end_str, tz_hint)

\* lines 151-154 with the parsed start at hand
try_from(start_utc, end_str, tz_hint) ==
    try_except(start_utc, end_utc_of(start_utc, end_str, tz_hint))

\* lines 150-154, 205-209 and 272-276: the try block of the two timestamps
Timestamps(start_str, end_str, tz_hint) ==
    try_from(parse_dt_to_utc(start_str, tz_hint), end_str, tz_hint)

\* lines 156-166, 213-223 and 278-288: the event appended with the two parsed timestamps,
\* or the continue of the try block
append(times, event) ==
    IF ~times.ok \/ times.skipped THEN times
    ELSE Kept([event EXCEPT !.start_utc = times.event[1], !.end_utc = times.event[2]])

\* lines 133-166: one item of the Google JSON payload
google_json_item(ev) ==
    LET ext_priv == Get(Get(ev, "extendedProperties", EmptyObject), "private", EmptyObject)
        emp_id == Get(ext_priv, "employeeId", "")
        own_email == Get(ext_priv, "employeeEmail", "")
        emp_email == IF own_email # "" THEN own_email
                     ELSE Get(Get(ev, "creator", EmptyObject), "email", "")
        avail == Get(ext_priv, "availabilityKind", "busy")
        start_obj == Get(ev, "start", EmptyObject)
        end_obj == Get(ev, "end", EmptyObject)
        is_all_day == "date" \in DOMAIN start_obj /\ "dateTime" \notin DOMAIN start_obj
        start_str == IF Get(start_obj, "dateTime", <<>>) # <<>> THEN start_obj.dateTime
                     ELSE Get(start_obj, "date", <<>>)
        end_str == IF Get(end_obj, "dateTime", <<>>) # <<>> THEN end_obj.dateTime
                   ELSE Get(end_obj, "date", <<>>)
        tz_hint == Get(start_obj, "timeZone", "None")
    IN  IF start_str = <<>> THEN Skipped
        ELSE append(Timestamps(start_str, end_str, tz_hint),
                    NormalizedEvent(Get(ev, "id", ""), "google", emp_id, emp_email,
                                    Get(ev, "summary", <<>>), avail, 0, 0, is_all_day))

\* lines 126-168
normalize_google_json(items) == Collect([i \in 1..Len(items) |-> google_json_item(items[i])])

\* str.lower() for the letters of the model's titles
lower(s) ==
    [i \in 1..Len(s) |->
        CASE s[i] = "O" -> "o" [] s[i] = "P" -> "p" [] s[i] = "T" -> "t" [] s[i] = "S" -> "s"
          [] s[i] = "V" -> "v" [] s[i] = "I" -> "i" [] s[i] = "C" -> "c" [] s[i] = "K" -> "k"
          [] OTHER -> s[i]]

\* mutant: the title has to be the keyword
contains_Whole(s, k) == s = k

\* k in s, for strings
contains(s, k) == \E i \in 0..(Len(s) - Len(k)) : SubSeq(s, i + 1, i + Len(k)) = k

\* line 198
ooo_keywords ==
    {<<"o", "o", "o">>, <<"p", "t", "o">>, <<"v", "a", "c", "a", "t", "i", "o", "n">>,
     <<"s", "i", "c", "k">>,
     <<"o", "u", "t", " ", "o", "f", " ", "o", "f", "f", "i", "c", "e">>}

\* lines 190-223: one row of the CSV payload
google_csv_row(row) ==
    LET start_str == Get(row, "start", <<>>)
        end_str == Get(row, "end", <<>>)
        summary == Get(row, "summary", <<>>)
        avail == IF \E k \in ooo_keywords : contains(lower(summary), k) THEN "oof" ELSE "busy"
        is_all_day == Len(strip(start_str)) = 10
    IN  IF start_str = <<>> THEN Skipped
        ELSE append(Timestamps(start_str, end_str, "None"),
                    NormalizedEvent(Get(row, "id", ""), "google_csv", "", "", summary, avail,
                                    0, 0, is_all_day))

\* lines 175-225; the email -> id lookup of lines 183-186 is built from employee_db and
\* never read
normalize_google_csv(rows, employee_db) ==
    Collect([i \in 1..Len(rows) |-> google_csv_row(rows[i])])

\* mutant: the last extension that has an employeeId is taken
first_extension_Last(extensions) ==
    LET hits == {i \in 1..Len(extensions) : "employeeId" \in DOMAIN extensions[i]}
    IN  IF hits = {} THEN EmptyObject
        ELSE extensions[CHOOSE i \in hits : \A j \in hits : j <= i]

\* lines 246-251: the first extension that has an employeeId, EmptyObject if there is none
first_extension(extensions) ==
    LET hits == {i \in 1..Len(extensions) : "employeeId" \in DOMAIN extensions[i]}
    IN  IF hits = {} THEN EmptyObject
        ELSE extensions[CHOOSE i \in hits : \A j \in hits : i <= j]

\* lines 239-288: one item of the Microsoft JSON payload
microsoft_json_item(ev) ==
    LET ext == first_extension(Get(ev, "extensions", <<>>))
        \* str(ext["employeeId"]) of an id that is a string
        emp_id == IF "employeeId" \in DOMAIN ext THEN ext.employeeId ELSE ""
        own_email == Get(ext, "employeeEmail", "")
        emp_email == IF own_email # "" THEN own_email
                     ELSE Get(Get(Get(ev, "organizer", EmptyObject), "emailAddress", EmptyObject),
                              "address", "")
        own_kind == Get(ext, "availabilityKind", "")
        show_as == Get(ev, "showAs", "busy")
        avail_kind == IF own_kind # "" THEN own_kind
                      ELSE IF show_as = "oof" THEN "oof" ELSE "busy"
        start_obj == Get(ev, "start", EmptyObject)
        end_obj == Get(ev, "end", EmptyObject)
        is_all_day == Get(ev, "isAllDay", FALSE)
        start_str == Get(start_obj, "dateTime", <<>>)
        end_str == Get(end_obj, "dateTime", <<>>)
        tz_hint == Get(start_obj, "timeZone", "None")
    IN  IF start_str = <<>> THEN Skipped
        ELSE append(Timestamps(start_str, end_str, tz_hint),
                    NormalizedEvent(Get(ev, "id", ""), "microsoft", emp_id, emp_email,
                                    Get(ev, "subject", <<>>), avail_kind, 0, 0, is_all_day))

\* lines 232-290
normalize_microsoft_json(items) ==
    Collect([i \in 1..Len(items) |-> microsoft_json_item(items[i])])

(***************************************************************************)
(* normalizer.py: availability query                                       *)
(***************************************************************************)

\* mutant: a timed event's end date is exclusive too
AvailOverlaps_EndExclusive(ev, target_date) ==
    DateOf(ev.start_utc) <= target_date /\ target_date < DateOf(ev.end_utc)

\* lines 315-322: does the event overlap target_date (get_available_employees)
AvailOverlaps(ev, target_date) ==
    LET ev_start_date == DateOf(ev.start_utc)
        ev_end_date == DateOf(ev.end_utc)
    IN  IF ev.is_all_day
        THEN ev_start_date <= target_date /\ target_date < ev_end_date
        ELSE ev_start_date <= target_date /\ target_date <= ev_end_date

\* mutant: the availability of the event is not looked at
BusyEvents_AnyAvailability(evs, target_date) ==
    {i \in 1..Len(evs) : AvailOverlaps(evs[i], target_date)}

\* lines 312-324: the events that reach the body of "if overlaps"
BusyEvents(evs, target_date) ==
    {i \in 1..Len(evs) : evs[i].availability \in {"busy", "oof"} /\ AvailOverlaps(evs[i], target_date)}

\* lines 325-326
busy_ids(evs, target_date) ==
    {evs[i].employee_id : i \in {j \in BusyEvents(evs, target_date) : Truthy(evs[j].employee_id)}}

\* lines 327-328
busy_emails(evs, target_date) ==
    {evs[i].employee_email : i \in {j \in BusyEvents(evs, target_date) : Truthy(evs[j].employee_email)}}

\* mutant: the email of the member is not looked at
is_busy_IdOnly(emp, ids, emails) == Str(emp.id) \in ids

\* lines 333-335
is_busy(emp, ids, emails) == Str(emp.id) \in ids \/ emp.email \in emails

\* line 336
AvailEntry(emp) == Put(emp, "employee_id", Str(emp.id))

\* mutant: a busy member is appended to both lists
RECURSIVE Partition_BusyInBoth(_, _, _)
Partition_BusyInBoth(emps, ids, emails) ==
    IF emps = <<>> THEN [available |-> <<>>, unavailable |-> <<>>]
    ELSE LET n == Len(emps)
             rest == Partition_BusyInBoth(SubSeq(emps, 1, n - 1), ids, emails)
             entry == AvailEntry(emps[n])
         IN  IF is_busy(emps[n], ids, emails)
             THEN [available |-> Append(rest.available, entry),
                   unavailable |-> Append(rest.unavailable, entry)]
             ELSE [rest EXCEPT !.available = Append(@, entry)]

\* lines 330-340: the loop that fills the two lists, in roster order
RECURSIVE Partition(_, _, _)
Partition(emps, ids, emails) ==
    IF emps = <<>> THEN [available |-> <<>>, unavailable |-> <<>>]
    ELSE LET n == Len(emps)
             rest == Partition(SubSeq(emps, 1, n - 1), ids, emails)
             entry == AvailEntry(emps[n])
         IN  IF is_busy(emps[n], ids, emails)
             THEN [rest EXCEPT !.unavailable = Append(@, entry)]
             ELSE [rest EXCEPT !.available = Append(@, entry)]

get_available_employees(evs, all_employees, query_date) ==
    LET target_date == DateOf(query_date)
        lists == Partition(all_employees, busy_ids(evs, target_date), busy_emails(evs, target_date))
    IN  [date |-> target_date,
         available |-> lists.available,
         unavailable |-> lists.unavailable,
         available_count |-> Len(lists.available),
         unavailable_count |-> Len(lists.unavailable)]

\* mutant: an all-day event's end date is inclusive too
EventOverlaps_EndInclusive(ev, target_date) ==
    DateOf(ev.start_utc) <= target_date /\ target_date <= DateOf(ev.end_utc)

\* lines 356-361: does the event overlap target_date (get_events_for_date)
EventOverlaps(ev, target_date) ==
    LET ev_start == DateOf(ev.start_utc)
        ev_end == DateOf(ev.end_utc)
    IN  IF ev.is_all_day
        THEN ev_start <= target_date /\ target_date < ev_end
        ELSE ev_start <= target_date /\ target_date <= ev_end

RECURSIVE get_events_for_date(_, _)
get_events_for_date(evs, query_date) ==
    IF evs = <<>> THEN <<>>
    ELSE LET n == Len(evs)
             rest == get_events_for_date(SubSeq(evs, 1, n - 1), query_date)
         IN  IF EventOverlaps(evs[n], DateOf(query_date))
             THEN Append(rest, to_dict(evs[n]))
             ELSE rest

(***************************************************************************)
(* reassignment.py: utilization                                            *)
(***************************************************************************)

None == "None"

ActiveStatuses == {"in_progress", "todo"}

\* str(task.get("assigned_to_id", ""))
assignee_str(t) == IF "assigned_to_id" \in DOMAIN t THEN Str(t.assigned_to_id) ELSE ""

\* round(num / den) for den > 0, as Python 3 rounds: to the nearest integer, a tie to
\* the even one. The float quotient (n / m) * 100 of line 81 is exact enough for this
\* to be its value whenever m < 40.
PyRound(num, den) ==
    LET q == num \div den
        r == num % den
    IN  IF 2 * r < den THEN q
        ELSE IF 2 * r > den THEN q + 1
        ELSE IF q % 2 = 0 THEN q ELSE q + 1

\* lexicographic order on tuples of integers of the same length (Python tuple compare)
RECURSIVE LexLess(_, _)
LexLess(a, b) ==
    IF a = <<>> THEN FALSE
    ELSE IF Head(a) # Head(b) THEN Head(a) < Head(b)
    ELSE LexLess(Tail(a), Tail(b))

\* index order of list.sort(key=...): stable, ascending by key. keys[i] is the key of item i.
RECURSIVE SortedIndices(_, _)
SortedIndices(keys, n) ==
    IF n = 0 THEN <<>>
    ELSE LET prev == SortedIndices(keys, n - 1)
             \* item n goes after every item whose key is not greater than its own
             before == {k \in 1..Len(prev) : ~LexLess(keys[n], keys[prev[k]])}
             at == Cardinality(before)
         IN  SubSeq(prev, 1, at) \o <<n>> \o SubSeq(prev, at + 1, Len(prev))

StableSort(items, keys) ==
    LET order == SortedIndices(keys, Len(items))
    IN  [i \in 1..Len(items) |-> items[order[i]]]

\* mutant: tasks of every status are counted
active_tasks_of_AnyStatus(emp_id, tasks) ==
    SelectSeq(tasks, LAMBDA t : assignee_str(t) = emp_id)

\* lines 65-69
active_tasks_of(emp_id, tasks) ==
    SelectSeq(tasks, LAMBDA t : assignee_str(t) = emp_id
                                /\ Get(t, "status", None) \in ActiveStatuses)

\* mutant: all-day events are counted too
cal_events_of_WithAllDay(emp, emp_id, day_events) ==
    SelectSeq(day_events, LAMBDA e : e.employee_id = emp_id \/ e.employee_email = Get(emp, "email", None))

\* lines 74-78
cal_events_of(emp, emp_id, day_events) ==
    SelectSeq(day_events, LAMBDA e : (e.employee_id = emp_id \/ e.employee_email = Get(emp, "email", None))
                                     /\ ~e.is_all_day)

\* mutant: the percentage is not capped
utilization_pct_of_NoCap(task_count, max_tasks) == PyRound(task_count * 100, Max(max_tasks, 1))

\* line 81
utilization_pct_of(task_count, max_tasks) == Min(100, PyRound(task_count * 100, Max(max_tasks, 1)))

\* line 82
free_capacity_of(task_count, max_tasks) == Max(0, max_tasks - task_count)

\* lines 60-93: the enriched copy of one roster entry
UtilizationEntry(emp, tasks, day_events, available_ids) ==
    LET emp_id == Str(emp.id)
        max_tasks == Get(emp, "max_tasks_per_day", 4)
        active_tasks == active_tasks_of(emp_id, tasks)
        task_count == Len(active_tasks)
        cal_events == cal_events_of(emp, emp_id, day_events)
        added == [is_available |-> emp_id \in available_ids,
                  active_task_count |-> task_count,
                  active_tasks |-> active_tasks,
                  calendar_event_count |-> Len(cal_events),
                  utilization_pct |-> utilization_pct_of(task_count, max_tasks),
                  free_capacity |-> free_capacity_of(task_count, max_tasks)]
    IN  [k \in (DOMAIN emp) \cup (DOMAIN added) |-> IF k \in DOMAIN added THEN added[k] ELSE emp[k]]

\* mutant: free capacity is not a sort key
UtilizationKey_NoCapacity(e) == <<IF e.is_available THEN 0 ELSE 1, e.utilization_pct>>

\* lines 96-100
UtilizationKey(e) == <<IF e.is_available THEN 0 ELSE 1, e.utilization_pct, 0 - e.free_capacity>>

get_utilization(evs, employees, tasks, query_date) ==
    LET avail_result == get_available_employees(evs, employees, query_date)
        available_ids == {Str(avail_result.available[i].id) : i \in 1..Len(avail_result.available)}
        day_events == get_events_for_date(evs, query_date)
        results == [i \in 1..Len(employees) |->
                       UtilizationEntry(employees[i], tasks, day_events, available_ids)]
    IN  StableSort(results, [i \in 1..Len(results) |-> UtilizationKey(results[i])])

(***************************************************************************)
(* reassignment.py: suggestions                                            *)
(***************************************************************************)

\* mutant: the calendar load is left out of the score
score_candidate_NoCalendar(candidate, task) ==
    (Cardinality(Get(task, "required_skills", {}) \cap Get(candidate, "skills", {})) * 15)
        - candidate.utilization_pct

\* lines 106-114
score_candidate(candidate, task) ==
    LET required == Get(task, "required_skills", {})
        emp_skills == Get(candidate, "skills", {})
        skill_match == Cardinality(required \cap emp_skills)
    IN  (skill_match * 15) - candidate.utilization_pct - (candidate.calendar_event_count * 3)

\* lines 265-278
serialize_task(task) ==
    [id |-> Get(task, "id", None),
     title |-> Get(task, "title", None),
     status |-> Get(task, "status", None),
     priority |-> Get(task, "priority", None),
     required_skills |-> Get(task, "required_skills", {}),
     assigned_to_id |-> Get(task, "assigned_to_id", None),
     last_reassigned |-> Get(task, "last_reassigned", None),
     reassignment_reason |-> Get(task, "reassignment_reason", None)]

\* lines 281-295
serialize_emp(emp) ==
    [id |-> Get(emp, "id", None),
     first_name |-> Get(emp, "first_name", None),
     last_name |-> Get(emp, "last_name", None),
     email |-> Get(emp, "email", None),
     skills |-> Get(emp, "skills", {}),
     max_tasks_per_day |-> Get(emp, "max_tasks_per_day", 4),
     is_available |-> Get(emp, "is_available", None),
     utilization_pct |-> Get(emp, "utilization_pct", None),
     free_capacity |-> Get(emp, "free_capacity", None),
     active_task_count |-> Get(emp, "active_task_count", None),
     calendar_event_count |-> Get(emp, "calendar_event_count", None)]

\* line 140 and line 149: the dict keeps the last entry of each id
util_map_get(utilization, assignee_id) ==
    LET hits == {i \in 1..Len(utilization) : Str(utilization[i].id) = assignee_id}
    IN  IF hits = {} THEN <<>>
        ELSE utilization[CHOOSE i \in hits : \A j \in hits : j <= i]

\* lines 172-178
Candidate(emp, task) ==
    LET required_skills == Get(task, "required_skills", {})
        emp_skills == Get(emp, "skills", {})
        extra == [skill_match_count |-> Cardinality(required_skills \cap emp_skills),
                  skill_match_pct |-> PyRound(Cardinality(required_skills \cap emp_skills) * 100,
                                              Max(Cardinality(required_skills), 1)),
                  skill_gap |-> required_skills \ emp_skills,
                  score |-> score_candidate(emp, task)]
        base == serialize_emp(emp)
    IN  [k \in (DOMAIN base) \cup (DOMAIN extra) |-> IF k \in DOMAIN extra THEN extra[k] ELSE base[k]]

\* lines 165-167: the pool without the current assignee
CandidatePool(available_pool, assignee_id) ==
    SelectSeq(available_pool, LAMBDA emp : Str(emp.id) # assignee_id)

\* mutant: ties on the score are not broken
CandidateKey_ScoreOnly(c) == <<0 - c.score>>

\* line 180
CandidateKey(c) == <<0 - c.score, 0 - c.free_capacity>>

\* candidates[:top_n]
Slice(s, n) ==
    IF n >= 0 THEN SubSeq(s, 1, Min(n, Len(s))) ELSE SubSeq(s, 1, Max(0, Len(s) + n))

\* lines 163-180 and 187
Recommendations(task, available_pool, assignee_id, top_n) ==
    LET pool == CandidatePool(available_pool, assignee_id)
        candidates == [i \in 1..Len(pool) |-> Candidate(pool[i], task)]
        ranked == StableSort(candidates, [i \in 1..Len(candidates) |-> CandidateKey(candidates[i])])
    IN  Slice(ranked, top_n)

\* mutant: every active task is flagged, whatever its assignee
Suggestion_AlwaysFlagged(task, utilization, unavailable_ids, available_pool, top_n) ==
    [task |-> serialize_task(task),
     current_assignee |-> serialize_emp(util_map_get(utilization, assignee_str(task))),
     needs_reassignment |-> TRUE,
     recommendations |-> Recommendations(task, available_pool, assignee_str(task), top_n)]

\* lines 147-188: the entry of one active task
Suggestion(task, utilization, unavailable_ids, available_pool, top_n) ==
    LET assignee_id == assignee_str(task)
        assignee_info == util_map_get(utilization, assignee_id)
    IN  IF assignee_id \notin unavailable_ids
        THEN [task |-> serialize_task(task),
              current_assignee |-> serialize_emp(assignee_info),
              needs_reassignment |-> FALSE,
              recommendations |-> <<>>]
        ELSE [task |-> serialize_task(task),
              current_assignee |-> serialize_emp(assignee_info),
              needs_reassignment |-> TRUE,
              recommendations |-> Recommendations(task, available_pool, assignee_id, top_n)]

\* mutant: a task without a priority ranks as a low one
priority_rank_MissingAsLow(p) ==
    CASE p = "critical" -> 0
      [] p = "high" -> 1
      [] p = "medium" -> 2
      [] p = "low" -> 3
      [] p = None -> 3
      [] OTHER -> 9

\* line 191 and line 194
priority_rank(p) ==
    CASE p = "critical" -> 0
      [] p = "high" -> 1
      [] p = "medium" -> 2
      [] p = "low" -> 3
      [] OTHER -> 9

\* lines 192-195
SuggestionKey(s) == <<IF s.needs_reassignment THEN 0 ELSE 1, priority_rank(s.task.priority)>>

suggest_reassignments(evs, employees, tasks, query_date, top_n) ==
    LET utilization == get_utilization(evs, employees, tasks, query_date)
        unavailable_ids == {Str(utilization[i].id) :
                               i \in {j \in 1..Len(utilization) : ~utilization[j].is_available}}
        available_pool == SelectSeq(utilization, LAMBDA e : e.is_available /\ e.free_capacity > 0)
        active_tasks == SelectSeq(tasks, LAMBDA t : Get(t, "status", None) \in ActiveStatuses)
        unsorted == [i \in 1..Len(active_tasks) |->
                        Suggestion(active_tasks[i], utilization, unavailable_ids, available_pool, top_n)]
        suggestions == StableSort(unsorted, [i \in 1..Len(unsorted) |-> SuggestionKey(unsorted[i])])
    IN  [date |-> DateOf(query_date),
         total_tasks_checked |-> Len(active_tasks),
         needs_reassignment |-> Cardinality({i \in 1..Len(suggestions) : suggestions[i].needs_reassignment}),
         suggestions |-> suggestions,
         utilization_snapshot |-> [i \in 1..Len(utilization) |-> serialize_emp(utilization[i])]]

(***************************************************************************)
(* reassignment.py: execute_reassignment, and its caller api_reassign      *)
(***************************************************************************)

\* next((x for x in items if x["id"] == id), None): the index of the first match, 0 for None
FindById(items, id) ==
    LET hits == {i \in 1..Len(items) : items[i].id = id}
    IN  IF hits = {} THEN 0 ELSE CHOOSE i \in hits : \A j \in hits : i <= j

\* lines 242-244: the task as rewritten in memory
\* mutant: the assignee is overwritten without the two stamps
ReassignedTask_NoStamp(task, new_assignee_id, now, reason) ==
    Put(task, "assigned_to_id", new_assignee_id)

ReassignedTask(task, new_assignee_id, now, reason) ==
    Put(Put(Put(task, "assigned_to_id", new_assignee_id), "last_reassigned", now),
        "reassignment_reason", reason)

\* lines 254 and 256
full_name(emp) == emp.first_name \o " " \o emp.last_name

\* mutant: the new assignee is not looked up before the task is rewritten
Prepare_NoEmployeeCheck(loaded, task_id, new_assignee_id, now, reason) ==
    LET tasks == loaded.tasks
        employees == loaded.employees
        ti == FindById(tasks, task_id)
        ni == FindById(employees, new_assignee_id)
    IN  IF ti = 0 THEN [error |-> "task not found"]
        ELSE LET task == tasks[ti]
                 oi == FindById(employees, task.assigned_to_id)
             IN  [error |-> None,
                  db |-> [loaded EXCEPT !.tasks[ti] = ReassignedTask(task, new_assignee_id, now, reason)],
                  task_id |-> task_id,
                  task_title |-> Get(task, "title", None),
                  from_employee_id |-> task.assigned_to_id,
                  from_employee_name |-> IF oi = 0 THEN "Unknown" ELSE full_name(employees[oi]),
                  to_employee_id |-> new_assignee_id,
                  to_employee_name |-> IF ni = 0 THEN "Unknown" ELSE full_name(employees[ni]),
                  reason |-> reason]

\* lines 225-244: what the call holds in memory after reading the store
\* (error # None: the ValueError raised before anything is changed)
Prepare(loaded, task_id, new_assignee_id, now, reason) ==
    LET tasks == loaded.tasks
        employees == loaded.employees
        ti == FindById(tasks, task_id)
        ni == FindById(employees, new_assignee_id)
    IN  IF ti = 0 THEN [error |-> "task not found"]
        ELSE IF ni = 0 THEN [error |-> "employee not found"]
        ELSE LET task == tasks[ti]
                 oi == FindById(employees, task.assigned_to_id)
             IN  [error |-> None,
                  db |-> [loaded EXCEPT !.tasks[ti] = ReassignedTask(task, new_assignee_id, now, reason)],
                  task_id |-> task_id,
                  task_title |-> Get(task, "title", None),
                  from_employee_id |-> task.assigned_to_id,
                  from_employee_name |-> IF oi = 0 THEN "Unknown" ELSE full_name(employees[oi]),
                  to_employee_id |-> new_assignee_id,
                  to_employee_name |-> full_name(employees[ni]),
                  reason |-> reason]

\* lines 250-260
Audit(mem, now) ==
    [task_id |-> mem.task_id,
     task_title |-> mem.task_title,
     from_employee_id |-> mem.from_employee_id,
     from_employee_name |-> mem.from_employee_name,
     to_employee_id |-> mem.to_employee_id,
     to_employee_name |-> mem.to_employee_name,
     reason |-> mem.reason,
     executed_at |-> now]

(***************************************************************************)
(* Bounds and input universes                                              *)
(***************************************************************************)

\* longest event list, roster and task list of the query specifications
MaxEvents == 2

MaxRoster == 2

\* execute_reassignment calls started in one behaviour (also the range of the clock)
MaxCalls == 2

\* largest store of the commit specification
MaxStoreTasks == 2

\* longest task list of the utilization specification
MaxTasks == 3

\* longest roster and task list of the suggestion specification
MaxSuggestRoster == 3

MaxSuggestTasks == 2

SeqsUpTo(S, n) == UNION {[1..k -> S] : k \in 0..n}

NonEmptySeqsUpTo(S, n) == UNION {[1..k -> S] : k \in 1..n}

\* the request handler threads of the Flask server
Workers == {"w1", "w2"}

QueryDates == {0, MinutesPerDay + 615, 2 * MinutesPerDay}

Employee(id, email) ==
    [id |-> id, first_name |-> "Emp", last_name |-> Str(id), email |-> email, skills |-> {}]

Event(id, email, availability, is_all_day, start_utc, end_utc) ==
    [event_id |-> "ev", source |-> "google", employee_id |-> id, employee_email |-> email,
     title |-> "", availability |-> availability,
     start_utc |-> start_utc, end_utc |-> end_utc, is_all_day |-> is_all_day]

Task(id, status, assigned_to_id) ==
    [id |-> id, title |-> "Title " \o id, status |-> status, priority |-> "medium",
     required_skills |-> {}, assigned_to_id |-> assigned_to_id]

\* <<availability, is_all_day, start_utc, end_utc>>: busy all-day spans over days 0-1,
\* over day 1 and over no day, a busy meeting on day 0 from 09:00 to 10:00, a busy one
\* from 23:00 on day 1 to 01:00 on day 2, an out-of-office span and a free meeting
EventKinds ==
    {<<"busy", TRUE, 0, 2 * MinutesPerDay>>,
     <<"busy", TRUE, MinutesPerDay, 2 * MinutesPerDay>>,
     <<"busy", TRUE, 0, 0>>,
     <<"busy", FALSE, 540, 600>>,
     <<"busy", FALSE, MinutesPerDay + 1380, 2 * MinutesPerDay + 60>>,
     <<"oof", TRUE, 0, 2 * MinutesPerDay>>,
     <<"free", FALSE, 540, 600>>}

\* <<employee_id, employee_email>> of an event
EventIdentities == {<<"1", "">>, <<"2", "a@x">>, <<"", "">>}

AvailEvents ==
    {Event(who[1], who[2], kind[1], kind[2], kind[3], kind[4]) :
        who \in EventIdentities, kind \in EventKinds}

\* two members share the id 2, one member has no email
AvailEmployees == {Employee(1, "a@x"), Employee(2, ""), Employee(2, "a@x")}

WithMax(emp, max_tasks_per_day) == Put(emp, "max_tasks_per_day", max_tasks_per_day)

\* member 1 with no max_tasks_per_day and with a negative, zero and positive one; member 2
UtilEmployees ==
    {Employee(1, "a@x"), Employee(2, "b@x")}
        \cup {WithMax(Employee(1, "a@x"), m) : m \in {-1, 0, 1, 3, 4, 8}}

UtilTasks ==
    {Task("T1", "todo", 1), Task("T2", "in_progress", 1), Task("T3", "done", 1), Task("T4", "todo", 2)}

\* no event, or member 1 out of office on days 0 and 1
UtilEventLists == {<<>>, <<Event("1", "a@x", "oof", TRUE, 0, 2 * MinutesPerDay)>>}

UtilDates == {540}

\* member 1, two members that share the id 2 (one of them with room for one task),
\* and a member 3 with no room at all
SuggestEmployees ==
    {Employee(1, "a@x"), WithMax(Employee(2, "b@x"), 1), Employee(2, "a@x"),
     WithMax(Employee(3, "c@x"), 0)}

SuggestTasks == {Task("T1", "todo", 1), Task("T2", "in_progress", 2), Task("T3", "done", 1)}

\* member 1 out of office on days 0 and 1, and a meeting of whoever has the email a@x
SuggestEvents ==
    {Event("1", "", "oof", TRUE, 0, 2 * MinutesPerDay), Event("", "a@x", "busy", FALSE, 540, 600)}

TopNs == {0, 1, 3}

NoResponse == [kind |-> "none"]

NoOutcome == [kind |-> "none"]

Idle == [error |-> "idle"]

\* no reassignment is under way
WorkersIdle ==
    /\ pc = [w \in Workers |-> "idle"]
    /\ local = [w \in Workers |-> Idle]
    /\ outcome = [w \in Workers |-> NoOutcome]
    /\ clock = 0

(***************************************************************************)
(* api.py: the read-only endpoints                                         *)
(***************************************************************************)

\* lines 140-147
api_availability(query_date) ==
    /\ response' = [kind |-> "availability", query_date |-> query_date,
                    body |-> get_available_employees(events, db.employees, query_date)]
    /\ UNCHANGED <<db, events, pc, local, outcome, clock>>

\* lines 117-138, with ?date=
api_normalize(query_date) ==
    /\ response' = [kind |-> "events", query_date |-> query_date,
                    body |-> get_events_for_date(events, query_date)]
    /\ UNCHANGED <<db, events, pc, local, outcome, clock>>

\* lines 149-157
api_utilization(query_date) ==
    /\ response' = [kind |-> "utilization", query_date |-> query_date,
                    body |-> get_utilization(events, db.employees, db.tasks, query_date)]
    /\ UNCHANGED <<db, events, pc, local, outcome, clock>>

\* lines 159-167 (top_n is the parameter of suggest_reassignments, 3 when the endpoint calls it)
api_reassignments(query_date, top_n) ==
    /\ response' = [kind |-> "reassignments", query_date |-> query_date, top_n |-> top_n,
                    body |-> suggest_reassignments(events, db.employees, db.tasks, query_date, top_n)]
    /\ UNCHANGED <<db, events, pc, local, outcome, clock>>

(***************************************************************************)
(* Availability: any event list and roster of AvailEvents / AvailEmployees *)
(***************************************************************************)

InitAvail ==
    /\ events \in SeqsUpTo(AvailEvents, MaxEvents)
    /\ db \in [employees : NonEmptySeqsUpTo(AvailEmployees, MaxRoster), tasks : {<<>>}]
    /\ response = NoResponse
    /\ WorkersIdle

\* one request per behaviour: the endpoints are pure, a second request adds nothing
NextAvail ==
    /\ response = NoResponse
    /\ \E d \in QueryDates :
          \/ api_availability(d)
          \/ api_normalize(d)

SpecAvail == InitAvail /\ [][NextAvail]_vars

(***************************************************************************)
(* Utilization: rosters with every kind of max_tasks_per_day, task lists   *)
(***************************************************************************)

InitUtil ==
    /\ events \in UtilEventLists
    /\ db \in [employees : NonEmptySeqsUpTo(UtilEmployees, MaxRoster),
               tasks : SeqsUpTo(UtilTasks, MaxTasks)]
    /\ response = NoResponse
    /\ WorkersIdle

NextUtil ==
    /\ response = NoResponse
    /\ \E d \in UtilDates : api_utilization(d)

SpecUtil == InitUtil /\ [][NextUtil]_vars

(***************************************************************************)
(* Suggestions: rosters of up to three members, active and finished tasks  *)
(***************************************************************************)

InitSuggest ==
    /\ events \in SeqsUpTo(SuggestEvents, MaxEvents)
    /\ db \in [employees : NonEmptySeqsUpTo(SuggestEmployees, MaxSuggestRoster),
               tasks : SeqsUpTo(SuggestTasks, MaxSuggestTasks)]
    /\ response = NoResponse
    /\ WorkersIdle

NextSuggest ==
    /\ response = NoResponse
    /\ \E d \in UtilDates, top_n \in TopNs : api_reassignments(d, top_n)

SpecSuggest == InitSuggest /\ [][NextSuggest]_vars

(***************************************************************************)
(* Ranking: candidates with skills, loads and free meetings of their own   *)
(***************************************************************************)

\* longest roster and task list of the ranking specification
MaxRankRoster == 3

MaxRankTasks == 2

WithSkills(emp, skills) == Put(emp, "skills", skills)

\* the assignee, and three candidates: two know payments (one with room for 8 tasks),
\* one knows api
RankEmployees ==
    {Employee(1, "a@x"),
     WithSkills(Employee(2, "b@x"), {"payments"}),
     WithSkills(Employee(3, "c@x"), {"api"}),
     WithMax(WithSkills(Employee(4, "d@x"), {"payments"}), 8)}

WithRequired(task, required_skills) == Put(task, "required_skills", required_skills)

\* two tasks of member 1, one of member 2 and one of member 4
RankTasks ==
    {WithRequired(Task("T1", "todo", 1), {"payments", "api"}),
     WithRequired(Task("T3", "in_progress", 1), {"payments"}),
     Task("T2", "todo", 2),
     Task("T4", "todo", 4)}

\* member 1 is out of office on days 0 and 1; member 2 or member 4 may have a free
\* meeting on day 0
RankEventLists ==
    {<<Event("1", "a@x", "oof", TRUE, 0, 2 * MinutesPerDay)>>,
     <<Event("1", "a@x", "oof", TRUE, 0, 2 * MinutesPerDay), Event("2", "b@x", "free", FALSE, 540, 600)>>,
     <<Event("1", "a@x", "oof", TRUE, 0, 2 * MinutesPerDay), Event("4", "d@x", "free", FALSE, 540, 600)>>}

RankTopNs == {0, 1, 2, 3}

InitRank ==
    /\ events \in RankEventLists
    /\ db \in [employees : NonEmptySeqsUpTo(RankEmployees, MaxRankRoster),
               tasks : SeqsUpTo(RankTasks, MaxRankTasks)]
    /\ response = NoResponse
    /\ WorkersIdle

NextRank ==
    /\ response = NoResponse
    /\ \E d \in UtilDates, top_n \in RankTopNs : api_reassignments(d, top_n)

SpecRank == InitRank /\ [][NextRank]_vars

(***************************************************************************)
(* Priorities: task lists of every priority, for an absent and a present   *)
(* assignee                                                                *)
(***************************************************************************)

\* longest task list of the priority specification
MaxPriorityTasks == 3

Without(d, key) == [k \in (DOMAIN d) \ {key} |-> d[k]]

\* the four priorities, one that is not a priority and (None) a task without the field
Priorities == {"critical", "high", "medium", "low", "urgent", None}

WithPriority(task, p) == IF p = None THEN Without(task, "priority") ELSE Put(task, "priority", p)

PriorityTasks == {WithPriority(Task("T1", "todo", a), p) : a \in {1, 2}, p \in Priorities}

\* member 1 is out of office on days 0 and 1, member 2 is not
InitPriority ==
    /\ events = <<Event("1", "a@x", "oof", TRUE, 0, 2 * MinutesPerDay)>>
    /\ db \in [employees : {<<Employee(1, "a@x"), Employee(2, "b@x")>>},
               tasks : SeqsUpTo(PriorityTasks, MaxPriorityTasks)]
    /\ response = NoResponse
    /\ WorkersIdle

NextPriority ==
    /\ response = NoResponse
    /\ \E d \in UtilDates : api_reassignments(d, 3)

SpecPriority == InitPriority /\ [][NextPriority]_vars

(***************************************************************************)
(* Timestamps: _parse_dt_to_utc on date and date-time strings, well formed *)
(* or not, with every kind of timezone hint                                *)
(***************************************************************************)

Pad2(n) == <<Digits[(n \div 10) + 1], Digits[(n % 10) + 1]>>

Pad4(n) == Pad2(n \div 100) \o Pad2(n % 100)

\* "YYYY-MM-DD" of <<y, m, d>>
DateText(date) == Pad4(date[1]) \o <<"-">> \o Pad2(date[2]) \o <<"-">> \o Pad2(date[3])

\* "THH:MM:00" of <<hh, mm>>
TimeText(time) == <<"T">> \o Pad2(time[1]) \o <<":">> \o Pad2(time[2]) \o <<":", "0", "0">>

\* "+HH:MM" or "-HH:MM" of <<sign, hh, mm>>
OffsetText(offset) == <<offset[1]>> \o Pad2(offset[2]) \o <<":">> \o Pad2(offset[3])

\* four dates, a 13th month and a 30th of February
ParseDates == {<<2026, 3, 1>>, <<2026, 3, 2>>, <<2026, 2, 28>>, <<2024, 2, 29>>,
               <<2026, 13, 1>>, <<2026, 2, 30>>}

\* three times of day and a 25th hour
ParseTimes == {<<0, 0>>, <<9, 30>>, <<23, 30>>, <<25, 0>>}

\* four offsets and one of a whole day, which is none
ParseOffsets == {<<"-", 5, 0>>, <<"+", 5, 30>>, <<"+", 0, 0>>, <<"-", 8, 0>>, <<"+", 24, 0>>}

\* what follows the time: nothing, an offset, Z, an offset without colon, of hours only,
\* and one that is no number
Suffixes ==
    {<<>>, <<"Z">>, <<"-", "0", "5", "0", "0">>, <<"-", "0", "5">>, <<"+", "x", "x", ":", "0", "0">>}
        \cup {OffsetText(o) : o \in ParseOffsets}

DateOnlyTexts ==
    {DateText(d) : d \in ParseDates}
        \cup {<<" ">> \o DateText(d) \o <<" ">> : d \in ParseDates}
        \cup {<<"2", "0", "2", "6", "/", "0", "3", "/", "0", "1">>,
              <<"n", "o", "t", " ", "a", " ", "d", "a", "t", "e">>}

DateTimeTexts ==
    {DateText(d) \o TimeText(t) \o x : d \in ParseDates, t \in ParseTimes, x \in Suffixes}
        \cup {<<>>, <<" ">>, <<"s", "o", "o", "n">>,
              <<"2", "0", "2", "6", "-", "3", "-", "1", "T", "9", ":", "5", ":", "0">>,
              <<"2", "0", "2", "6", "-", "0", "3", "-", "0", "1", " ", "0", "9", ":", "3", "0">>,
              <<"2", "0", "2", "6", "-", "0", "3", "-", "0", "1", "T", "0", "9", ":", "3", "0", ":",
                "0", "0", ".", "0", "0", "0", "0", "0", "0", "0">>}

\* no hint, an empty one, zones of the table and a zone that is not in it
TzHints == {"None", "", "Eastern Standard Time", "Pacific Daylight Time", "UTC", "America/New_York"}

\* lines 69-119, called on its own
parse(dt_str, tz_hint) ==
    /\ response' = [kind |-> "parse", dt_str |-> dt_str, tz_hint |-> tz_hint,
                    result |-> parse_dt_to_utc(dt_str, tz_hint)]
    /\ UNCHANGED <<db, events, pc, local, outcome, clock>>

InitParse ==
    /\ events = <<>>
    /\ db = [employees |-> <<>>, tasks |-> <<>>]
    /\ response = NoResponse
    /\ WorkersIdle

NextParse ==
    /\ response = NoResponse
    /\ \E dt_str \in DateOnlyTexts \cup DateTimeTexts, tz_hint \in TzHints : parse(dt_str, tz_hint)

SpecParse == InitParse /\ [][NextParse]_vars

(***************************************************************************)
(* Normalisation: payloads of the three sources whose items have every     *)
(* kind of start and end                                                   *)
(***************************************************************************)

\* most items of a payload
MaxItems == 2

\* 2026-03-02T09:30:00, 2026-03-01T23:30:00-05:00 and a text that is no timestamp
StampTexts ==
    {DateText(<<2026, 3, 2>>) \o TimeText(<<9, 30>>),
     DateText(<<2026, 3, 1>>) \o TimeText(<<23, 30>>) \o OffsetText(<<"-", 5, 0>>),
     <<"s", "o", "o", "n">>}

DayTexts == {DateText(<<2026, 3, 1>>), DateText(<<2026, 3, 2>>)}

\* the start or end member of a Google item: timed, all-day, or with neither text
GoogleTimes ==
    {[dateTime |-> s, timeZone |-> "Eastern Standard Time"] : s \in StampTexts}
        \cup {[date |-> d] : d \in DayTexts}
        \cup {[timeZone |-> "UTC"]}

\* the start or end member of a Microsoft item
MicrosoftTimes ==
    {[dateTime |-> s, timeZone |-> "Eastern Standard Time"] : s \in StampTexts \cup DayTexts}
        \cup {[timeZone |-> "UTC"]}

\* the start or end column of a CSV row
CsvTimes == StampTexts \cup DayTexts \cup {<<>>}

GoogleItem(id, start, end) ==
    [id |-> id, summary |-> <<"P", "T", "O">>, start |-> start, end |-> end,
     extendedProperties |-> [private |-> [employeeId |-> "1", employeeEmail |-> "a@x"]]]

MicrosoftItem(id, start, end) ==
    [id |-> id, subject |-> <<"P", "T", "O">>, start |-> start, end |-> end, isAllDay |-> FALSE,
     extensions |-> <<[employeeId |-> "1", employeeEmail |-> "a@x"]>>]

CsvRow(id, start, end) == [id |-> id, summary |-> <<"P", "T", "O">>, start |-> start, end |-> end]

\* the payloads of up to MaxItems items; item k has the id k
Payloads(times) == UNION {[1..n -> times \X times] : n \in 0..MaxItems}

\* api.py lines 60-68: the events of one payload join the module's list; an exception of
\* the normalizer leaves the list as it was
load_events(source, payload, body) ==
    /\ response' = [kind |-> "normalize", source |-> source, payload |-> payload, body |-> body]
    /\ events' = IF body.ok THEN events \o body.value ELSE events
    /\ UNCHANGED <<db, pc, local, outcome, clock>>

\* api.py lines 62-63
load_google_json(times) ==
    LET items == [k \in 1..Len(times) |-> GoogleItem(Str(k), times[k][1], times[k][2])]
    IN  load_events("google", items, normalize_google_json(items))

\* api.py lines 64-65
load_google_csv(times) ==
    LET rows == [k \in 1..Len(times) |-> CsvRow(Str(k), times[k][1], times[k][2])]
    IN  load_events("google_csv", rows, normalize_google_csv(rows, db.employees))

\* api.py lines 66-67
load_microsoft_json(times) ==
    LET items == [k \in 1..Len(times) |-> MicrosoftItem(Str(k), times[k][1], times[k][2])]
    IN  load_events("microsoft", items, normalize_microsoft_json(items))

InitNormalize ==
    /\ events = <<>>
    /\ db = [employees |-> <<Employee(1, "a@x")>>, tasks |-> <<>>]
    /\ response = NoResponse
    /\ WorkersIdle

NextNormalize ==
    /\ response = NoResponse
    /\ \/ \E times \in Payloads(GoogleTimes) : load_google_json(times)
       \/ \E times \in Payloads(CsvTimes) : load_google_csv(times)
       \/ \E times \in Payloads(MicrosoftTimes) : load_microsoft_json(times)

SpecNormalize == InitNormalize /\ [][NextNormalize]_vars

(***************************************************************************)
(* The four queries called on lists held in memory: what they return and   *)
(* what they leave in the lists they were given                            *)
(***************************************************************************)

\* mutant: the computed fields are written into the object itself
after_spread_InPlace(obj, added) ==
    [k \in (DOMAIN obj) \cup (DOMAIN added) |-> IF k \in DOMAIN added THEN added[k] ELSE obj[k]]

\* normalizer.py line 336 and reassignment.py lines 84-93: {**obj, ...} builds a dict of
\* its own, obj is afterwards what it was
after_spread(obj, added) == obj

\* normalizer.py lines 40-44 and line 363: asdict builds a dict of its own and the two
\* assignments of to_dict go to that dict, the event is afterwards what it was
after_to_dict(ev) == ev

\* the lists given to get_available_employees, after lines 312-340
after_get_available_employees(evs, employees, query_date) ==
    [events |-> evs,
     employees |-> [i \in 1..Len(employees) |->
                       after_spread(employees[i], [employee_id |-> Str(employees[i].id)])]]

\* the list given to get_events_for_date, after lines 355-363
after_get_events_for_date(evs, query_date) ==
    [i \in 1..Len(evs) |->
        IF EventOverlaps(evs[i], DateOf(query_date)) THEN after_to_dict(evs[i]) ELSE evs[i]]

\* the lists given to get_utilization, after lines 52-100: the two calls, the loop that
\* appends a spread of every employee to results, and the sort of results
after_get_utilization(evs, employees, tasks, query_date) ==
    LET first == after_get_available_employees(evs, employees, query_date)
        second == after_get_events_for_date(first.events, query_date)
    IN  [events |-> second,
         employees |-> [i \in 1..Len(employees) |->
                           after_spread(first.employees[i],
                                        [is_available |-> TRUE, active_task_count |-> 0,
                                         active_tasks |-> <<>>, calendar_event_count |-> 0,
                                         utilization_pct |-> 0, free_capacity |-> 0])],
         tasks |-> tasks]

\* the lists given to suggest_reassignments, after lines 138-205: the call of
\* get_utilization; every entry of the report is built by _serialize_task and
\* _serialize_emp, and the two sorts are of lists made here
after_suggest_reassignments(evs, employees, tasks, query_date, top_n) ==
    after_get_utilization(evs, employees, tasks, query_date)

call_get_available_employees(query_date) ==
    LET after == after_get_available_employees(events, db.employees, query_date)
    IN  /\ response' = [kind |-> "availability", query_date |-> query_date,
                        body |-> get_available_employees(events, db.employees, query_date)]
        /\ events' = after.events
        /\ db' = [db EXCEPT !.employees = after.employees]
        /\ UNCHANGED <<pc, local, outcome, clock>>

call_get_events_for_date(query_date) ==
    /\ response' = [kind |-> "events", query_date |-> query_date,
                    body |-> get_events_for_date(events, query_date)]
    /\ events' = after_get_events_for_date(events, query_date)
    /\ UNCHANGED <<db, pc, local, outcome, clock>>

call_get_utilization(query_date) ==
    LET after == after_get_utilization(events, db.employees, db.tasks, query_date)
    IN  /\ response' = [kind |-> "utilization", query_date |-> query_date,
                        body |-> get_utilization(events, db.employees, db.tasks, query_date)]
        /\ events' = after.events
        /\ db' = [employees |-> after.employees, tasks |-> after.tasks]
        /\ UNCHANGED <<pc, local, outcome, clock>>

call_suggest_reassignments(query_date, top_n) ==
    LET after == after_suggest_reassignments(events, db.employees, db.tasks, query_date, top_n)
    IN  /\ response' = [kind |-> "reassignments", query_date |-> query_date, top_n |-> top_n,
                        body |-> suggest_reassignments(events, db.employees, db.tasks, query_date, top_n)]
        /\ events' = after.events
        /\ db' = [employees |-> after.employees, tasks |-> after.tasks]
        /\ UNCHANGED <<pc, local, outcome, clock>>

InitFrame == InitSuggest

NextFrame ==
    /\ response = NoResponse
    /\ \E d \in UtilDates :
          \/ call_get_available_employees(d)
          \/ call_get_events_for_date(d)
          \/ call_get_utilization(d)
          \/ call_suggest_reassignments(d, 3)

SpecFrame == InitFrame /\ [][NextFrame]_vars

(***************************************************************************)
(* Calendar load: utilization and suggestions over events of every kind,   *)
(* named by id alone, by email alone, or by neither                        *)
(***************************************************************************)

\* <<employee_id, employee_email>> of an event
CountIdentities == {<<"1", "">>, <<"", "a@x">>, <<"", "">>}

\* <<availability, is_all_day, start_utc, end_utc>>: a busy and a free all-day span over
\* days 0-1, a busy and a free meeting on day 0, a busy meeting from day 1 into day 2
CountKinds ==
    {<<"busy", TRUE, 0, 2 * MinutesPerDay>>,
     <<"free", TRUE, 0, 2 * MinutesPerDay>>,
     <<"busy", FALSE, 540, 600>>,
     <<"free", FALSE, 540, 600>>,
     <<"busy", FALSE, MinutesPerDay + 1380, 2 * MinutesPerDay + 60>>}

CountEvents ==
    {Event(who[1], who[2], kind[1], kind[2], kind[3], kind[4]) :
        who \in CountIdentities, kind \in CountKinds}

\* the members of the availability specification and a third one
CountEmployees == AvailEmployees \cup {Employee(3, "c@x")}

CountTasks == {<<>>, <<Task("T1", "todo", 1)>>}

InitCount ==
    /\ events \in SeqsUpTo(CountEvents, MaxEvents)
    /\ db \in [employees : NonEmptySeqsUpTo(CountEmployees, MaxRoster), tasks : CountTasks]
    /\ response = NoResponse
    /\ WorkersIdle

NextCount ==
    /\ response = NoResponse
    /\ \E d \in QueryDates :
          \/ api_utilization(d)
          \/ api_reassignments(d, 3)

SpecCount == InitCount /\ [][NextCount]_vars

(***************************************************************************)
(* api.py: POST /api/reassign. Every request runs execute_reassignment in  *)
(* a thread of its own; the read of the store file (lines 222-223) and the *)
(* write of it (lines 247-248) are the two steps of a call.                *)
(***************************************************************************)

\* the employees of a store: both members, or the second one alone (tasks of the first
\* then name an assignee that has left the roster)
StoreRosters == {<<Employee(1, "a@x"), Employee(2, "b@x")>>, <<Employee(2, "b@x")>>}

StoreTasks == {Task(id, "todo", a) : id \in {"T1", "T2"}, a \in {1, 2}}

\* the ids a request may name: those of the store and one that is in no store
TaskIdInputs == {"T1", "T2", "T9"}

AssigneeInputs == {1, 2, 9}

Reasons == {"Reassigned via dashboard"}

Init ==
    /\ db \in [employees : StoreRosters,
               tasks : NonEmptySeqsUpTo(StoreTasks, MaxStoreTasks)]
    /\ events = <<>>
    /\ response = NoResponse
    /\ WorkersIdle

\* reassignment.py lines 222-244: read the store, look up both ids, rewrite the task in
\* memory; a ValueError ends the call with the error response of api.py line 179.
\* read is the store as it was read, kept for stating the properties.
Load(w, task_id, new_assignee_id, reason) ==
    /\ pc[w] = "idle"
    /\ clock < MaxCalls
    /\ clock' = clock + 1
    /\ LET mem == Prepare(db, task_id, new_assignee_id, clock', reason)
           args == [task_id |-> task_id, new_assignee_id |-> new_assignee_id, read |-> db]
       IN  /\ local' = [local EXCEPT ![w] = [k \in (DOMAIN mem) \cup (DOMAIN args) |->
                                                IF k \in DOMAIN mem THEN mem[k] ELSE args[k]]]
           /\ IF mem.error # None
              THEN /\ pc' = [pc EXCEPT ![w] = "done"]
                   /\ outcome' = [outcome EXCEPT ![w] = [kind |-> "error", error |-> mem.error]]
              ELSE /\ pc' = [pc EXCEPT ![w] = "loaded"]
                   /\ UNCHANGED outcome
    /\ UNCHANGED <<db, events, response>>

\* mutant: the write re-reads the store and replaces only the task of the call
Written_Merge(w) ==
    [db EXCEPT !.tasks[FindById(db.tasks, local[w].task_id)] =
                   local[w].db.tasks[FindById(local[w].db.tasks, local[w].task_id)]]

\* line 248: what json.dump writes, the whole store as the call holds it
Written(w) == local[w].db

\* reassignment.py lines 247-260 and api.py line 177: write the store, answer with the audit
Store(w) ==
    /\ pc[w] = "loaded"
    /\ db' = Written(w)
    /\ pc' = [pc EXCEPT ![w] = "done"]
    /\ outcome' = [outcome EXCEPT ![w] = [kind |-> "success", audit |-> Audit(local[w], clock)]]
    /\ UNCHANGED <<events, local, clock, response>>

\* the response is sent and the thread ends
Return(w) ==
    /\ pc[w] = "done"
    /\ pc' = [pc EXCEPT ![w] = "idle"]
    /\ local' = [local EXCEPT ![w] = Idle]
    /\ outcome' = [outcome EXCEPT ![w] = NoOutcome]
    /\ UNCHANGED <<db, events, clock, response>>

Step(w) ==
    \/ \E task_id \in TaskIdInputs, new_assignee_id \in AssigneeInputs, reason \in Reasons :
          Load(w, task_id, new_assignee_id, reason)
    \/ Store(w)
    \/ Return(w)

Next == \E w \in Workers : Step(w)

Spec == Init /\ [][Next]_vars

\* the calls one after the other: no call starts while another is between its read and its write
NextSeq == \E w \in Workers : (\A v \in Workers \ {w} : pc[v] # "loaded") /\ Step(w)

SpecSeq == Init /\ [][NextSeq]_vars

(***************************************************************************)
(* The dashboard: a report is shown, recommendations of the report are     *)
(* committed one after the other, and the report is asked for again        *)
(***************************************************************************)

\* two tasks of member 1 and a task of member 2 that has the id of one of them
CommitTasks == {Task("T1", "todo", 1), Task("T2", "in_progress", 1), Task("T2", "todo", 2)}

InitCommit ==
    /\ events \in SeqsUpTo(SuggestEvents, MaxEvents)
    /\ db \in [employees : NonEmptySeqsUpTo(SuggestEmployees, MaxSuggestRoster),
               tasks : SeqsUpTo(CommitTasks, MaxSuggestTasks)]
    /\ response = NoResponse
    /\ WorkersIdle

\* api.py lines 169-177: POST /api/reassign with the task of entry j of the report shown
\* and the id of its recommendation r; a task is committed once
reassign(w, j, r) ==
    /\ response.kind = "reassignments"
    /\ j \in 1..Len(response.body.suggestions)
    /\ r \in 1..Len(response.body.suggestions[j].recommendations)
    /\ \A i \in 1..Len(db.tasks) :
          db.tasks[i].id = response.body.suggestions[j].task.id
              => "last_reassigned" \notin DOMAIN db.tasks[i]
    /\ Load(w, response.body.suggestions[j].task.id,
            response.body.suggestions[j].recommendations[r].id, "Reassigned via dashboard")

\* api.py lines 159-167 as the dashboard calls it: when it opens, and again after commits
\* when no call is running; before is the report shown so far, kept for stating the
\* properties
show_report(query_date) ==
    /\ \/ response = NoResponse
       \/ /\ response.kind = "reassignments"
          /\ response.query_date = query_date
          /\ clock > 0
          /\ \A w \in Workers : pc[w] = "idle"
    /\ response' = [kind |-> IF response = NoResponse THEN "reassignments" ELSE "refreshed",
                    query_date |-> query_date,
                    top_n |-> 3,
                    before |-> IF response = NoResponse THEN None ELSE response.body,
                    body |-> suggest_reassignments(events, db.employees, db.tasks, query_date, 3)]
    /\ UNCHANGED <<db, events, pc, local, outcome, clock>>

NextCommit ==
    \/ \E d \in UtilDates : show_report(d)
    \/ \E w \in Workers :
          /\ \A v \in Workers \ {w} : pc[v] # "loaded"
          /\ \E j \in 1..MaxSuggestTasks, r \in 1..MaxSuggestRoster : reassign(w, j, r)
    \/ \E w \in Workers : Store(w)
    \/ \E w \in Workers : Return(w)

SpecCommit == InitCommit /\ [][NextCommit]_vars

(***************************************************************************)
(* Ingestion: a payload of one item is normalised into the event list and  *)
(* the list is then queried for a date                                     *)
(***************************************************************************)

\* PTO, Sick, OOO, Vacation, Out of Office, optout, Stop, Out of, and no title
CsvTitles ==
    {<<"P", "T", "O">>,
     <<"S", "i", "c", "k">>,
     <<"O", "O", "O">>,
     <<"V", "a", "c", "a", "t", "i", "o", "n">>,
     <<"O", "u", "t", " ", "o", "f", " ", "O", "f", "f", "i", "c", "e">>,
     <<"o", "p", "t", "o", "u", "t">>,
     <<"S", "t", "o", "p">>,
     <<"O", "u", "t", " ", "o", "f">>,
     <<>>}

\* the start column: a date, a date with a blank before it, a date-time, no timestamp
CsvStarts == DayTexts \cup StampTexts \cup {<<" ">> \o DateText(<<2026, 3, 1>>)}

CsvTitledRows ==
    {[id |-> "1", summary |-> title, start |-> start, end |-> <<>>] :
        title \in CsvTitles, start \in CsvStarts}

\* extensions of one Microsoft item
MaxExtensions == 2

\* an extension with no employeeId, one with an id alone, one with an email and a kind
\* of its own, one whose email and kind are empty
MicrosoftExtensions ==
    {[note |-> "x"],
     [employeeId |-> "7"],
     [employeeId |-> "8", employeeEmail |-> "h@x", availabilityKind |-> "free"],
     [employeeId |-> "9", employeeEmail |-> "", availabilityKind |-> ""]}

\* the members of a Microsoft item that are there or not: organizer and showAs
MicrosoftOptions ==
    {<<>>,
     [showAs |-> "oof"],
     [showAs |-> "free"],
     [organizer |-> [emailAddress |-> [address |-> "o@x"]]],
     [organizer |-> [emailAddress |-> [address |-> "o@x"]], showAs |-> "oof"],
     [organizer |-> [emailAddress |-> [address |-> "o@x"]], showAs |-> "free"]}

MicrosoftCards ==
    {[k \in {"id", "subject", "start", "end", "extensions"} \cup DOMAIN options |->
         CASE k = "id" -> "1"
           [] k = "subject" -> <<>>
           [] k = "start" -> [dateTime |-> DateText(<<2026, 3, 2>>) \o TimeText(<<9, 30>>), timeZone |-> "UTC"]
           [] k = "end" -> [timeZone |-> "UTC"]
           [] k = "extensions" -> extensions
           [] OTHER -> options[k]] :
        extensions \in SeqsUpTo(MicrosoftExtensions, MaxExtensions), options \in MicrosoftOptions}

\* a meeting of member 1 on day 0 is on the calendar, or nothing is
InitIngest ==
    /\ events \in {<<>>, <<Event("1", "", "busy", FALSE, 540, 600)>>}
    /\ db \in [employees : {<<Employee(1, "a@x")>>, <<Employee(1, "a@x"), Employee(2, "")>>},
               tasks : {<<>>}]
    /\ response = NoResponse
    /\ WorkersIdle

NextIngest ==
    \/ /\ response = NoResponse
       /\ \/ \E times \in GoogleTimes \X GoogleTimes : load_google_json(<<times>>)
          \/ \E times \in MicrosoftTimes \X MicrosoftTimes : load_microsoft_json(<<times>>)
          \/ \E row \in CsvTitledRows :
                load_events("google_csv", <<row>>, normalize_google_csv(<<row>>, db.employees))
          \/ \E item \in MicrosoftCards :
                load_events("microsoft", <<item>>, normalize_microsoft_json(<<item>>))
    \/ /\ response.kind = "normalize"
       /\ \E d \in QueryDates :
             \/ api_normalize(d)
             \/ api_availability(d)
             \/ api_utilization(d)

SpecIngest == InitIngest /\ [][NextIngest]_vars

(***************************************************************************)
(* Properties of the availability query                                    *)
(***************************************************************************)

\* x is an enriched copy of the roster entry m
IsCopyOf(x, m) == \A k \in DOMAIN m : k \in DOMAIN x /\ x[k] = m[k]

CountIn(list, m) == Cardinality({j \in 1..Len(list) : IsCopyOf(list[j], m)})

InList(list, m) == \E j \in 1..Len(list) : IsCopyOf(list[j], m)

Range(s) == {s[i] : i \in 1..Len(s)}

target == DateOf(response.query_date)

\* C1: get_available_employees puts every roster entry in exactly one of available /
\* unavailable: the two lengths add up to the roster's, the counts are the lengths,
\* and no entry is in both lists or in neither.
C1_Partition ==
    response.kind = "availability" =>
        LET r == response.body
            roster == db.employees
        IN  /\ Len(r.available) + Len(r.unavailable) = Len(roster)
            /\ r.available_count = Len(r.available)
            /\ r.unavailable_count = Len(r.unavailable)
            /\ \A i \in 1..Len(roster) :
                  /\ CountIn(r.available, roster[i]) + CountIn(r.unavailable, roster[i])
                        = CountIn(roster, roster[i])
                  /\ CountIn(r.available, roster[i]) = 0 \/ CountIn(r.unavailable, roster[i]) = 0

C1_Witness ==
    /\ response.kind = "availability"
    /\ Len(db.employees) = 2
    /\ Len(response.body.available) = 1
    /\ Len(response.body.unavailable) = 1

\* the rule of the specification, on dates
AllDayRule(ev, d) == DateOf(ev.start_utc) <= d /\ d < DateOf(ev.end_utc)

TimedRule(ev, d) == DateOf(ev.start_utc) <= d /\ d <= DateOf(ev.end_utc)

\* the busy / oof events that name the member m by a non-empty id or a non-empty email
Blocking(m) ==
    {i \in 1..Len(events) :
        /\ events[i].availability \in {"busy", "oof"}
        /\ \/ events[i].employee_id # "" /\ events[i].employee_id = Str(m.id)
           \/ events[i].employee_email # "" /\ events[i].employee_email = m.email}

March1to3 == Event("1", "", "busy", TRUE, 0, 2 * MinutesPerDay)

\* C8: an all-day event overlaps the target date iff start_date <= target_date < end_date,
\* in get_events_for_date (the event is returned) and in get_available_employees (a member
\* blocked only by all-day events is unavailable); the span 03-01..03-03 overlaps 03-01
\* and 03-02 and not 03-03.
C8_AllDayOverlap ==
    /\ response.kind = "events" =>
          \A i \in 1..Len(events) :
              events[i].is_all_day =>
                  (to_dict(events[i]) \in Range(response.body) <=> AllDayRule(events[i], target))
    /\ response.kind = "availability" =>
          \A k \in 1..Len(db.employees) :
              LET m == db.employees[k]
              IN  (\A i \in Blocking(m) : events[i].is_all_day) =>
                      (InList(response.body.unavailable, m)
                          <=> \E i \in Blocking(m) : AllDayRule(events[i], target))
    /\ (response.kind \in {"events", "availability"} /\ events = <<March1to3>>) =>
          IF response.kind = "events"
          THEN response.body # <<>> <=> target \in {0, 1}
          ELSE \A k \in 1..Len(db.employees) :
                   db.employees[k].id = 1 =>
                       (InList(response.body.unavailable, db.employees[k]) <=> target \in {0, 1})

C8_Witness ==
    /\ response.kind = "events"
    /\ target = 2
    /\ \E i \in 1..Len(events) :
          /\ events[i].is_all_day
          /\ DateOf(events[i].start_utc) = 0
          /\ DateOf(events[i].end_utc) = 2
          /\ to_dict(events[i]) \notin Range(response.body)

Meeting9to10 == Event("1", "", "busy", FALSE, 540, 600)

\* C9: a timed event overlaps the target date iff start_date <= target_date <= end_date,
\* in get_events_for_date and in get_available_employees; a meeting on 03-01 from 09:00
\* to 10:00 overlaps 03-01 and not 03-02.
C9_TimedOverlap ==
    /\ response.kind = "events" =>
          \A i \in 1..Len(events) :
              ~events[i].is_all_day =>
                  (to_dict(events[i]) \in Range(response.body) <=> TimedRule(events[i], target))
    /\ response.kind = "availability" =>
          \A k \in 1..Len(db.employees) :
              LET m == db.employees[k]
              IN  (\A i \in Blocking(m) : ~events[i].is_all_day) =>
                      (InList(response.body.unavailable, m)
                          <=> \E i \in Blocking(m) : TimedRule(events[i], target))
    /\ (response.kind \in {"events", "availability"} /\ events = <<Meeting9to10>>) =>
          IF response.kind = "events"
          THEN response.body # <<>> <=> target = 0
          ELSE \A k \in 1..Len(db.employees) :
                   db.employees[k].id = 1 =>
                       (InList(response.body.unavailable, db.employees[k]) <=> target = 0)

\* a meeting that ends on the target date, after midnight, is returned
C9_Witness ==
    /\ response.kind = "events"
    /\ target = 2
    /\ \E i \in 1..Len(events) :
          /\ ~events[i].is_all_day
          /\ DateOf(events[i].start_utc) = 1
          /\ DateOf(events[i].end_utc) = 2
          /\ to_dict(events[i]) \in Range(response.body)

RuleOverlaps(ev, d) == IF ev.is_all_day THEN AllDayRule(ev, d) ELSE TimedRule(ev, d)

\* C10 as stated: unavailable iff some overlapping busy / oof event has the member's id
\* or the member's email (refuted: an event with no email and a member with no email)
C10_AsStated ==
    response.kind = "availability" =>
        \A k \in 1..Len(db.employees) :
            LET m == db.employees[k]
            IN  InList(response.body.unavailable, m)
                    <=> \E i \in 1..Len(events) :
                            /\ events[i].availability \in {"busy", "oof"}
                            /\ RuleOverlaps(events[i], target)
                            /\ \/ events[i].employee_id = Str(m.id)
                               \/ events[i].employee_email = m.email

\* C10 (amended): a roster member is unavailable iff some busy / oof event overlapping
\* the target date carries a non-empty employee_id equal to the member's id or a
\* non-empty employee_email equal to the member's email; either key alone suffices and
\* events of any other availability never count.
C10_Unavailable ==
    response.kind = "availability" =>
        \A k \in 1..Len(db.employees) :
            LET m == db.employees[k]
            IN  InList(response.body.unavailable, m)
                    <=> \E i \in Blocking(m) : RuleOverlaps(events[i], target)

\* an event with a foreign id and the member's email makes the member unavailable
C10_Witness ==
    /\ response.kind = "availability"
    /\ \E k \in 1..Len(db.employees) :
          LET m == db.employees[k]
          IN  /\ InList(response.body.unavailable, m)
              /\ \A i \in 1..Len(events) : events[i].employee_id # Str(m.id)
              /\ \E i \in 1..Len(events) : events[i].employee_email = m.email /\ m.email # ""

(***************************************************************************)
(* Properties of get_utilization                                           *)
(***************************************************************************)

\* C6: whatever the number of active tasks and whatever max_tasks_per_day (0 and
\* negative values included), utilization_pct is an integer in 0..100.
C6_PctRange ==
    response.kind = "utilization" =>
        \A j \in 1..Len(response.body) : response.body[j].utilization_pct \in 0..100

\* a member with a non-positive max_tasks_per_day and two active tasks is capped at 100
C6_Witness ==
    /\ response.kind = "utilization"
    /\ \E j \in 1..Len(response.body) :
          LET x == response.body[j]
          IN  /\ "max_tasks_per_day" \in DOMAIN x
              /\ x.max_tasks_per_day <= 0
              /\ x.active_task_count >= 2
              /\ x.utilization_pct = 100

\* q is num / den rounded to the nearest integer, a tie going to the even one
IsRounded(q, num, den) ==
    /\ 2 * (q * den - num) <= den
    /\ 2 * (num - q * den) <= den
    /\ (2 * (q * den - num) = den \/ 2 * (num - q * den) = den) => q % 2 = 0

ActiveCount(id) ==
    Cardinality({i \in 1..Len(db.tasks) :
                    db.tasks[i].assigned_to_id = id /\ db.tasks[i].status \in {"in_progress", "todo"}})

\* C7: for every roster member, active_task_count is the number of tasks assigned to the
\* member with status in_progress or todo, utilization_pct is
\* min(100, round(active_task_count / max(max_tasks_per_day, 1) * 100)) and free_capacity
\* is max(0, max_tasks_per_day - active_task_count), max_tasks_per_day defaulting to 4;
\* with max_tasks_per_day = 4 and 2 active tasks they are 50 and 2.
C7_Metrics ==
    response.kind = "utilization" =>
        /\ Len(response.body) = Len(db.employees)
        /\ \A k \in 1..Len(db.employees) : InList(response.body, db.employees[k])
        /\ \A j \in 1..Len(response.body) :
              LET x == response.body[j]
                  m == IF "max_tasks_per_day" \in DOMAIN x THEN x.max_tasks_per_day ELSE 4
                  d == IF m >= 1 THEN m ELSE 1
                  n == x.active_task_count
              IN  /\ n = ActiveCount(x.id)
                  /\ \E q \in 0..(100 * n + 1) :
                        /\ IsRounded(q, 100 * n, d)
                        /\ x.utilization_pct = (IF q < 100 THEN q ELSE 100)
                  /\ x.free_capacity = (IF m - n > 0 THEN m - n ELSE 0)
                  /\ (m = 4 /\ n = 2) => (x.utilization_pct = 50 /\ x.free_capacity = 2)

\* the default of 4 with two active tasks and a finished one
C7_Witness ==
    /\ response.kind = "utilization"
    /\ \E j \in 1..Len(response.body) :
          LET x == response.body[j]
          IN  /\ "max_tasks_per_day" \notin DOMAIN x
              /\ x.active_task_count = 2
              /\ x.utilization_pct = 50
              /\ x.free_capacity = 2
              /\ \E i \in 1..Len(db.tasks) :
                    db.tasks[i].assigned_to_id = x.id /\ db.tasks[i].status = "done"

(***************************************************************************)
(* Properties of suggest_reassignments                                     *)
(***************************************************************************)

\* the roster entry with this id and email is on the roster and no busy / oof event
\* overlapping the target date names it
AvailableMember(c) ==
    /\ \E k \in 1..Len(db.employees) : db.employees[k].id = c.id /\ db.employees[k].email = c.email
    /\ \A i \in Blocking(c) : ~RuleOverlaps(events[i], target)

\* C4: for every task entry with needs_reassignment = true, no recommendation is the
\* task's current assignee, every recommendation is a roster member that is available on
\* the target date, and every recommendation has free_capacity > 0.
C4_Recommendations ==
    response.kind = "reassignments" =>
        \A j \in 1..Len(response.body.suggestions) :
            LET s == response.body.suggestions[j]
            IN  s.needs_reassignment =>
                    \A r \in 1..Len(s.recommendations) :
                        LET c == s.recommendations[r]
                        IN  /\ c.id # s.task.assigned_to_id
                            /\ AvailableMember(c)
                            /\ c.free_capacity > 0

DistinctIds == 
    \A k, l \in 1..Len(db.employees) : db.employees[k].id = db.employees[l].id => k = l

\* C4 on rosters whose ids are distinct
C4_DistinctIds == DistinctIds => C4_Recommendations

(***************************************************************************)
(* Properties of execute_reassignment                                      *)
(***************************************************************************)

HasId(items, id) == \E i \in 1..Len(items) : items[i].id = id

\* the position of the task a call is about: the first one with the id
TargetOf(tasks, id) == CHOOSE i \in 1..Len(tasks) :
                          tasks[i].id = id /\ \A j \in 1..(i - 1) : tasks[j].id # id

Begins(w) == pc[w] = "idle" /\ pc'[w] # "idle"

Writes(w) == pc[w] = "loaded" /\ pc'[w] = "done"

Failed(w) == pc[w] = "done" /\ outcome[w].kind = "error"

Succeeded(w) == pc[w] = "done" /\ outcome[w].kind = "success"

\* C2: a call that names a task id or a new-assignee id that is not in the store ends in
\* an error outcome, and neither the step that fails nor the call's last step writes:
\* the persisted store is the same before and after.
C2_UnknownIdNoWrite ==
    [][\A w \in Workers :
         /\ Begins(w) /\ (~HasId(db.tasks, local'[w].task_id)
                          \/ ~HasId(db.employees, local'[w].new_assignee_id))
              => pc'[w] = "done" /\ outcome'[w].kind = "error" /\ db' = db
         /\ Failed(w) /\ pc'[w] # pc[w] => pc'[w] = "idle" /\ db' = db]_vars

\* both kinds of failed call have happened, and the store still holds every task untouched
C2_Witness ==
    \E v, w \in Workers :
        /\ Failed(v) /\ ~HasId(local[v].read.tasks, local[v].task_id)
        /\ Failed(w) /\ HasId(local[w].read.tasks, local[w].task_id)
        /\ ~HasId(local[w].read.employees, local[w].new_assignee_id)
        /\ db = local[v].read /\ db = local[w].read

\* C3: a write replaces the whole store by the one the writing call built from the
\* store it read (that store with the call's task reassigned), whatever has been written
\* since; so when another call that read the same store and is about another task has
\* already written and answered with its audit record, that call's reassignment is gone
\* after the write, and both calls have a success audit record.
C3_LastWriterWins ==
    [][\A w \in Workers : Writes(w) =>
         LET mine == local[w]
             ti == TargetOf(mine.read.tasks, mine.task_id)
         IN  /\ db' = mine.db
             /\ mine.db.employees = mine.read.employees
             /\ Len(mine.db.tasks) = Len(mine.read.tasks)
             /\ \A i \in 1..Len(mine.read.tasks) : i # ti => mine.db.tasks[i] = mine.read.tasks[i]
             /\ mine.db.tasks[ti].assigned_to_id = mine.new_assignee_id
             /\ outcome'[w].kind = "success"
             /\ \A v \in Workers \ {w} :
                   Succeeded(v) /\ local[v].read = mine.read /\ local[v].task_id # mine.task_id
                   => /\ outcome'[v] = outcome[v]
                      /\ LET tv == TargetOf(mine.read.tasks, local[v].task_id)
                         IN  /\ db.tasks[tv] = local[v].db.tasks[tv]
                             /\ db'.tasks[tv] = mine.read.tasks[tv]
                             /\ db'.tasks[tv] # db.tasks[tv]]_vars

\* two calls read the same store, both have written and hold a success audit record, and
\* the task of one of them is as it was read: its audit names a reassignment the store lacks
C3_Witness ==
    \E v, w \in Workers :
        /\ v # w /\ Succeeded(v) /\ Succeeded(w)
        /\ local[v].read = local[w].read
        /\ local[v].task_id # local[w].task_id
        /\ db = local[w].db
        /\ LET tv == TargetOf(db.tasks, local[v].task_id)
           IN  /\ db.tasks[tv] = local[v].read.tasks[tv]
               /\ outcome[v].audit.to_employee_id # db.tasks[tv].assigned_to_id
               /\ outcome[v].audit.task_id = db.tasks[tv].id

StampKeys == {"assigned_to_id", "last_reassigned", "reassignment_reason"}

\* C5: when calls do not overlap, the write of a successful call sets the target task's
\* assigned_to_id to the new id and stamps it with the reason and a time of the call,
\* leaves the task's other fields, every other task and every employee of the persisted
\* store as they were, and the audit record names the assignee before the call as
\* from_employee_id and the new assignee as to_employee_id.
C5_Reassign ==
    [][\A w \in Workers : Writes(w) =>
         LET call == local[w]
             ti == TargetOf(db.tasks, call.task_id)
             audit == outcome'[w].audit
         IN  /\ HasId(db.tasks, call.task_id)
             /\ HasId(db.employees, call.new_assignee_id)
             /\ outcome'[w].kind = "success"
             /\ db'.employees = db.employees
             /\ Len(db'.tasks) = Len(db.tasks)
             /\ \A i \in 1..Len(db.tasks) : i # ti => db'.tasks[i] = db.tasks[i]
             /\ DOMAIN db'.tasks[ti] = DOMAIN db.tasks[ti] \cup StampKeys
             /\ \A k \in DOMAIN db.tasks[ti] \ StampKeys : db'.tasks[ti][k] = db.tasks[ti][k]
             /\ db'.tasks[ti].assigned_to_id = call.new_assignee_id
             /\ db'.tasks[ti].reassignment_reason = call.reason
             /\ db'.tasks[ti].last_reassigned \in 1..clock
             /\ audit.task_id = call.task_id
             /\ audit.from_employee_id = db.tasks[ti].assigned_to_id
             /\ audit.to_employee_id = call.new_assignee_id
             /\ audit.reason = call.reason
             /\ audit.executed_at >= db'.tasks[ti].last_reassigned]_vars

\* a call has moved the second of two tasks from member 1 to member 2
C5_Witness ==
    \E w \in Workers :
        /\ Succeeded(w)
        /\ Len(db.tasks) = 2
        /\ db.tasks[1] = local[w].read.tasks[1]
        /\ db.tasks[2].id = local[w].task_id
        /\ db.tasks[2].id # db.tasks[1].id
        /\ outcome[w].audit.from_employee_id = 1
        /\ outcome[w].audit.to_employee_id = 2
        /\ db.tasks[2].assigned_to_id = 2
        /\ db.tasks[2].reassignment_reason = outcome[w].audit.reason
        /\ db.employees = local[w].read.employees

(***************************************************************************)
(* Properties of the suggestion report                                     *)
(***************************************************************************)

\* no busy or out-of-office event of the member overlaps the target date
MemberFree(m) == \A i \in Blocking(m) : ~RuleOverlaps(events[i], target)

\* a roster record of the id is available
AssigneeAvailable(id) ==
    \E k \in 1..Len(db.employees) : db.employees[k].id = id /\ MemberFree(db.employees[k])

\* the id is on the roster and no record of it is available
AssigneeUnavailable(id) ==
    /\ \E k \in 1..Len(db.employees) : db.employees[k].id = id
    /\ ~AssigneeAvailable(id)

IsActive(t) == t.status \in {"in_progress", "todo"}

\* C11: the report has exactly one entry for each task whose status is in_progress or
\* todo and none for a task of another status; the entry has needs_reassignment = false
\* and no recommendation when the task's assignee is available on the target date, and
\* needs_reassignment = true when the assignee is unavailable on it.
C11_OneEntryPerActiveTask ==
    response.kind = "reassignments" =>
        LET entries == response.body.suggestions
        IN  /\ Len(entries) = Cardinality({i \in 1..Len(db.tasks) : IsActive(db.tasks[i])})
            /\ \A i \in 1..Len(db.tasks) :
                  LET t == db.tasks[i]
                  IN  Cardinality({j \in 1..Len(entries) : IsCopyOf(entries[j].task, t)})
                        = (IF IsActive(t)
                           THEN Cardinality({l \in 1..Len(db.tasks) : db.tasks[l] = t})
                           ELSE 0)
            /\ \A j \in 1..Len(entries) :
                  LET s == entries[j]
                  IN  /\ IsActive(s.task)
                      /\ AssigneeAvailable(s.task.assigned_to_id)
                            => ~s.needs_reassignment /\ s.recommendations = <<>>
                      /\ AssigneeUnavailable(s.task.assigned_to_id) => s.needs_reassignment

\* a finished task and the task of a member who is out of office: one entry, flagged
C11_Witness ==
    /\ response.kind = "reassignments"
    /\ \E i \in 1..Len(db.tasks) : ~IsActive(db.tasks[i])
    /\ Len(response.body.suggestions) = 1
    /\ response.body.suggestions[1].needs_reassignment
    /\ AssigneeUnavailable(response.body.suggestions[1].task.assigned_to_id)
    /\ response.body.suggestions[1].recommendations # <<>>

\* the assignee of a task is available and its entry asks for nothing
C11_WitnessNoAction ==
    /\ response.kind = "reassignments"
    /\ \E j \in 1..Len(response.body.suggestions) :
          /\ AssigneeAvailable(response.body.suggestions[j].task.assigned_to_id)
          /\ ~response.body.suggestions[j].needs_reassignment

\* the recommendations of every task that needs reassignment
FlaggedEntries ==
    {j \in 1..Len(response.body.suggestions) : response.body.suggestions[j].needs_reassignment}

\* C12: for every recommended candidate of a task,
\* score = 15 * |required_skills /\ skills| - utilization_pct - 3 * calendar_event_count
\* and skill_gap = required_skills minus the candidate's skills; required {payments, api},
\* skills {payments}, utilization_pct 25 and one calendar event give -13 and {api}.
C12_Score ==
    response.kind = "reassignments" =>
        \A j \in FlaggedEntries :
            LET s == response.body.suggestions[j]
                required == s.task.required_skills
            IN  \A r \in 1..Len(s.recommendations) :
                    LET c == s.recommendations[r]
                    IN  /\ c.score = 15 * Cardinality(required \cap c.skills)
                                       - c.utilization_pct - 3 * c.calendar_event_count
                        /\ c.skill_gap = required \ c.skills
                        /\ (/\ required = {"payments", "api"}
                            /\ c.skills = {"payments"}
                            /\ c.utilization_pct = 25
                            /\ c.calendar_event_count = 1) => c.score = -13 /\ c.skill_gap = {"api"}

\* the example of the claim: a candidate with one of four tasks, one meeting, one skill of two
C12_Witness ==
    /\ response.kind = "reassignments"
    /\ \E j \in FlaggedEntries :
          LET s == response.body.suggestions[j]
          IN  /\ s.task.required_skills = {"payments", "api"}
              /\ \E r \in 1..Len(s.recommendations) :
                    LET c == s.recommendations[r]
                    IN  /\ c.skills = {"payments"}
                        /\ c.utilization_pct = 25
                        /\ c.calendar_event_count = 1
                        /\ c.score = -13
                        /\ c.skill_gap = {"api"}

\* candidate p ranks strictly before candidate c: higher score, or the same score and
\* more free capacity
RanksBefore(p, c) ==
    \/ p.score > c.score
    \/ p.score = c.score /\ p.free_capacity > c.free_capacity

\* the candidates of a task, from the utilization snapshot of the report: the available
\* members with free capacity other than the assignee, with the score of the task
PoolOf(task) ==
    LET snapshot == response.body.utilization_snapshot
        ks == {k \in 1..Len(snapshot) :
                  /\ snapshot[k].is_available
                  /\ snapshot[k].free_capacity > 0
                  /\ snapshot[k].id # task.assigned_to_id}
    IN  {[id |-> snapshot[k].id, email |-> snapshot[k].email, at |-> k,
          free_capacity |-> snapshot[k].free_capacity,
          score |-> 15 * Cardinality(task.required_skills \cap snapshot[k].skills)
                      - snapshot[k].utilization_pct - 3 * snapshot[k].calendar_event_count] :
            k \in ks}

Listed(p, recs) == Cardinality({r \in 1..Len(recs) : recs[r].id = p.id /\ recs[r].email = p.email})

\* the pool members that are the same person as p
Same(p, pool) == Cardinality({q \in pool : q.id = p.id /\ q.email = p.email})

\* C13: for every task that needs reassignment the recommendations are at most top_n
\* (as many as the pool allows), sorted by score descending and, on equal scores, by
\* free_capacity descending, and no candidate of the pool that is left out ranks
\* strictly before a listed one.
C13_TopN ==
    response.kind = "reassignments" /\ response.top_n >= 0 =>
        \A j \in FlaggedEntries :
            LET s == response.body.suggestions[j]
                recs == s.recommendations
                pool == PoolOf(s.task)
            IN  /\ Len(recs) <= response.top_n
                /\ Len(recs) = Min(response.top_n, Cardinality(pool))
                /\ \A r \in 1..Len(recs) : \E p \in pool :
                      /\ p.id = recs[r].id /\ p.email = recs[r].email
                      /\ p.score = recs[r].score /\ p.free_capacity = recs[r].free_capacity
                /\ \A a, b \in 1..Len(recs) : a < b => ~RanksBefore(recs[b], recs[a])
                /\ \A p \in pool :
                      Listed(p, recs) < Same(p, pool)
                         => \A r \in 1..Len(recs) : ~RanksBefore(p, recs[r])

\* two candidates with the same score, the one with more free capacity listed and the
\* other one left out by top_n = 1
C13_Witness ==
    /\ response.kind = "reassignments"
    /\ response.top_n = 1
    /\ \E j \in FlaggedEntries :
          LET s == response.body.suggestions[j]
              pool == PoolOf(s.task)
          IN  /\ Len(s.recommendations) = 1
              /\ \E p \in pool :
                    /\ p.id # s.recommendations[1].id
                    /\ p.score = s.recommendations[1].score
                    /\ p.free_capacity < s.recommendations[1].free_capacity
                    /\ p.at < CHOOSE k \in 1..Len(response.body.utilization_snapshot) :
                                 response.body.utilization_snapshot[k].id = s.recommendations[1].id

(***************************************************************************)
(* Properties of the order of get_utilization                              *)
(***************************************************************************)

Orderings(n) == {f \in [1..n -> 1..n] : \A a, b \in 1..n : f[a] = f[b] => a = b}

\* x comes before y in the order of the list, or they are equal on the three keys
NotAfter(x, y) ==
    \/ x.is_available /\ ~y.is_available
    \/ /\ x.is_available = y.is_available
       /\ \/ x.utilization_pct < y.utilization_pct
          \/ /\ x.utilization_pct = y.utilization_pct
             /\ x.free_capacity >= y.free_capacity

SameKeys(x, y) ==
    /\ x.is_available = y.is_available
    /\ x.utilization_pct = y.utilization_pct
    /\ x.free_capacity = y.free_capacity

\* C14: the list of get_utilization holds every roster member exactly once (entry i is
\* the enriched copy of roster member f[i], f a permutation), the available entries come
\* before the unavailable ones, then lower utilization_pct first, then higher
\* free_capacity first, and entries equal on the three keys are in roster order.
C14_Order ==
    response.kind = "utilization" =>
        LET out == response.body
            n == Len(db.employees)
        IN  /\ Len(out) = n
            /\ \E f \in Orderings(n) :
                  /\ \A i \in 1..n : IsCopyOf(out[i], db.employees[f[i]])
                  /\ \A a, b \in 1..n : a < b =>
                        /\ NotAfter(out[a], out[b])
                        /\ SameKeys(out[a], out[b]) => f[a] < f[b]

\* the second roster member comes first for its free capacity alone, and in another
\* report two different members equal on the keys would stay in place
C14_Witness ==
    /\ response.kind = "utilization"
    /\ Len(response.body) = 2
    /\ db.employees[1] # db.employees[2]
    /\ IsCopyOf(response.body[1], db.employees[2])
    /\ ~IsCopyOf(response.body[1], db.employees[1])
    /\ response.body[1].is_available = response.body[2].is_available
    /\ response.body[1].utilization_pct = response.body[2].utilization_pct
    /\ response.body[1].free_capacity > response.body[2].free_capacity

\* two different members equal on the three keys are listed in roster order
C14_WitnessTie ==
    /\ response.kind = "utilization"
    /\ Len(response.body) = 2
    /\ db.employees[1] # db.employees[2]
    /\ SameKeys(response.body[1], response.body[2])
    /\ IsCopyOf(response.body[1], db.employees[1])
    /\ ~IsCopyOf(response.body[1], db.employees[2])

(***************************************************************************)
(* Properties of the order of the suggestion report                        *)
(***************************************************************************)

PriorityOrder == <<"critical", "high", "medium", "low">>

\* the place of a priority in critical < high < medium < low, anything else after them
RankOf(p) ==
    IF \E i \in 1..4 : PriorityOrder[i] = p THEN CHOOSE i \in 1..4 : PriorityOrder[i] = p ELSE 5

\* C15: in the report the entries with needs_reassignment = true come before those with
\* needs_reassignment = false; within each group the order is critical, high, medium,
\* low, then any missing or unrecognized priority; entries with the same flag and rank
\* are in the order of the input task list (entry i is the entry of input task f[i]).
C15_ReportOrder ==
    response.kind = "reassignments" =>
        LET out == response.body.suggestions
            n == Len(db.tasks)
        IN  /\ Len(out) = n
            /\ \E f \in Orderings(n) :
                  /\ \A i \in 1..n : IsCopyOf(out[i].task, db.tasks[f[i]])
                  /\ \A a, b \in 1..n : a < b =>
                        /\ ~out[a].needs_reassignment => ~out[b].needs_reassignment
                        /\ out[a].needs_reassignment = out[b].needs_reassignment
                              => /\ RankOf(out[a].task.priority) <= RankOf(out[b].task.priority)
                                 /\ RankOf(out[a].task.priority) = RankOf(out[b].task.priority)
                                       => f[a] < f[b]

\* a critical task in good hands, then a task without priority and a low one of the
\* absent member: the report lists low, no priority, critical
C15_Witness ==
    /\ response.kind = "reassignments"
    /\ Len(db.tasks) = 3
    /\ db.tasks[1] = WithPriority(Task("T1", "todo", 2), "critical")
    /\ db.tasks[2] = WithPriority(Task("T1", "todo", 1), None)
    /\ db.tasks[3] = WithPriority(Task("T1", "todo", 1), "low")
    /\ LET out == response.body.suggestions
       IN  /\ out[1].needs_reassignment /\ out[1].task.priority = "low"
           /\ out[2].needs_reassignment /\ out[2].task.priority = None
           /\ ~out[3].needs_reassignment /\ out[3].task.priority = "critical"

(***************************************************************************)
(* Properties of _parse_dt_to_utc                                          *)
(***************************************************************************)

\* the dates of the inputs that are dates, and their day number (days since 2026-03-01)
DayNumber ==
    [d \in {<<2026, 3, 1>>, <<2026, 3, 2>>, <<2026, 2, 28>>, <<2024, 2, 29>>} |->
        CASE d = <<2026, 3, 1>> -> 0
          [] d = <<2026, 3, 2>> -> 1
          [] d = <<2026, 2, 28>> -> -1
          [] d = <<2024, 2, 29>> -> -731]

\* C19: on a 10-character YYYY-MM-DD string _parse_dt_to_utc returns midnight UTC of
\* that date, whatever the timezone hint: none, an empty one, a zone of the table or an
\* unknown zone.
C19_DateOnly ==
    response.kind = "parse" =>
        \A d \in DOMAIN DayNumber :
            response.dt_str = DateText(d) =>
                response.result = Returned(DayNumber[d] * MinutesPerDay)

\* 2026-03-02 with the hint Eastern Standard Time is 2026-03-02T00:00Z
C19_Witness ==
    /\ response.kind = "parse"
    /\ response.dt_str = DateText(<<2026, 3, 2>>)
    /\ response.tz_hint = "Eastern Standard Time"
    /\ response.result = Returned(MinutesPerDay)

\* the offset of the hinted zone in minutes: the table's for its names, 0 for anything else
HintOffset(tz_hint) ==
    CASE tz_hint = "Eastern Standard Time" -> -300
      [] tz_hint = "Pacific Daylight Time" -> -420
      [] OTHER -> 0

\* the minutes of <<sign, hh, mm>>
OffsetMinutes(o) == (IF o[1] = "+" THEN 1 ELSE -1) * (60 * o[2] + o[3])

\* the wall-clock time of date d at time t, in minutes since 2026-03-01T00:00
WallClock(d, t) == DayNumber[d] * MinutesPerDay + 60 * t[1] + t[2]

\* C20: for a date-time string the result is the wall-clock time minus the applicable
\* offset: the +HH:MM / -HH:MM suffix of the string if it has one, whatever the hint;
\* otherwise the table's offset of the hinted zone; otherwise (no hint, or a zone that is
\* not in the table) 0. The subtraction carries into the next or the previous day.
C20_Offset ==
    response.kind = "parse" =>
        \A d \in DOMAIN DayNumber, t \in {u \in ParseTimes : u[1] < 24} :
            /\ \A o \in {p \in ParseOffsets : p[2] < 24} :
                  response.dt_str = DateText(d) \o TimeText(t) \o OffsetText(o)
                     => response.result = Returned(WallClock(d, t) - OffsetMinutes(o))
            /\ response.dt_str = DateText(d) \o TimeText(t)
                  => response.result = Returned(WallClock(d, t) - HintOffset(response.tz_hint))

\* 2026-03-01T23:30:00-05:00 with a Pacific hint is 04:30 UTC of the next day
C20_Witness ==
    /\ response.kind = "parse"
    /\ response.dt_str = DateText(<<2026, 3, 1>>) \o TimeText(<<23, 30>>) \o OffsetText(<<"-", 5, 0>>)
    /\ response.tz_hint = "Pacific Daylight Time"
    /\ response.result = Returned(MinutesPerDay + 4 * 60 + 30)

\* 2026-03-01T00:00:00 with the hint Eastern Standard Time is 05:00 UTC
C20_WitnessHint ==
    /\ response.kind = "parse"
    /\ response.dt_str = DateText(<<2026, 3, 1>>) \o TimeText(<<0, 0>>)
    /\ response.tz_hint = "Eastern Standard Time"
    /\ response.result = Returned(300)

(***************************************************************************)
(* Properties of the normalizers                                           *)
(***************************************************************************)

\* C16: every event returned by normalize_google_json, normalize_google_csv and
\* normalize_microsoft_json has start_utc <= end_utc: a source event whose end precedes
\* its start is rejected or coerced (refuted: it is kept as it is).
C16_StartBeforeEnd ==
    response.kind = "normalize" =>
        /\ response.body.ok
        /\ \A i \in 1..Len(response.body.value) :
              response.body.value[i].start_utc <= response.body.value[i].end_utc

\* the start text and the end text of a payload item, <<>> for one that is missing
TextOf(source, times) ==
    IF source = "google_csv" THEN times
    ELSE IF source = "microsoft" THEN Get(times, "dateTime", <<>>)
    ELSE IF Get(times, "dateTime", <<>>) # <<>> THEN times.dateTime
    ELSE Get(times, "date", <<>>)

Unparsable == {<<"s", "o", "o", "n">>}

\* the item has a start, and its start and its end (if it has one) are timestamps
WellFormed(source, item) ==
    /\ TextOf(source, item.start) # <<>>
    /\ TextOf(source, item.start) \notin Unparsable
    /\ TextOf(source, item.end) \notin Unparsable

\* C17: in each normalizer an item whose start is missing or empty, or whose start or
\* end cannot be parsed, is left out and no error reaches the caller; every other item
\* of the payload is returned, in payload order (item k has the id k).
C17_BadItemsDropped ==
    response.kind = "normalize" =>
        LET items == response.payload
            kept == {k \in 1..Len(items) : WellFormed(response.source, items[k])}
        IN  /\ response.body.ok
            /\ Len(response.body.value) = Cardinality(kept)
            /\ \A i \in 1..Len(response.body.value) :
                  \E k \in kept :
                      /\ response.body.value[i].event_id = Str(k)
                      /\ Cardinality({j \in kept : j < k}) = i - 1

\* the first item's end is no timestamp, the second item is returned alone
C17_Witness ==
    /\ response.kind = "normalize"
    /\ Len(response.payload) = 2
    /\ TextOf(response.source, response.payload[1].start) \in DayTexts
    /\ TextOf(response.source, response.payload[1].end) \in Unparsable
    /\ response.body.ok
    /\ Len(response.body.value) = 1
    /\ response.body.value[1].event_id = "2"

(***************************************************************************)
(* Properties of the four queries as calls on lists in memory              *)
(***************************************************************************)

ComputedFields ==
    {"employee_id", "is_available", "active_task_count", "active_tasks", "calendar_event_count",
     "utilization_pct", "free_capacity"}

Entry(x) == [k \in (DOMAIN x) \ ComputedFields |-> x[k]]

\* the available list of get_available_employees for the events, roster and date of the
\* response
AvailableList == get_available_employees(events, db.employees, response.query_date).available

\* C24: for every roster member, the is_available flag returned by get_utilization is
\* true iff that same roster entry is in the available list that get_available_employees
\* returns for the same events, roster and date, also when two entries share an id and
\* have different emails.
C24_SameAsAvailability ==
    response.kind = "utilization" =>
        \A j \in 1..Len(response.body) :
            response.body[j].is_available <=> InList(AvailableList, Entry(response.body[j]))

\* C24 on rosters whose ids are distinct
C24_DistinctIds == DistinctIds => C24_SameAsAvailability

\* the timed events of the target date that carry the id or the email of x
TimedOf(x) ==
    {i \in 1..Len(events) :
        /\ RuleOverlaps(events[i], target)
        /\ ~events[i].is_all_day
        /\ \/ events[i].employee_id = Str(x.id)
           \/ events[i].employee_email = x.email}

\* C25: for every roster member, calendar_event_count is the number of events that
\* overlap the target date, are not all-day, and whose employee_id equals the member's
\* id or whose employee_email equals the member's email, whatever their availability;
\* all-day events never contribute.
C25_CalendarEventCount ==
    response.kind = "utilization" =>
        \A j \in 1..Len(response.body) :
            response.body[j].calendar_event_count = Cardinality(TimedOf(response.body[j]))

\* a member with a free meeting by email and an all-day event by id on the date: the
\* meeting is counted, the all-day event is not
C25_Witness ==
    /\ response.kind = "utilization"
    /\ \E j \in 1..Len(response.body) :
          LET x == response.body[j]
          IN  /\ x.calendar_event_count = 1
              /\ \E i \in TimedOf(x) : events[i].availability = "free" /\ events[i].employee_id = ""
              /\ \E i \in 1..Len(events) :
                    /\ events[i].is_all_day
                    /\ events[i].employee_id = Str(x.id)
                    /\ RuleOverlaps(events[i], target)

\* every member has an id and an email of its own
DistinctMembers ==
    /\ DistinctIds
    /\ \A k \in 1..Len(db.employees) : Str(db.employees[k].id) # "" /\ db.employees[k].email # ""

C30_WitnessCandidate ==
    /\ DistinctMembers
    /\ response.kind = "reassignments"
    /\ events # <<>>
    /\ \A i \in 1..Len(events) : events[i].availability \in {"busy", "oof"}
    /\ \E j \in 1..Len(response.body.suggestions) :
          response.body.suggestions[j].recommendations # <<>>

(***************************************************************************)
(* Properties of the store over a sequence of reassignments                *)
(***************************************************************************)

TaskIds(store) == {store.tasks[i].id : i \in 1..Len(store.tasks)}

EmployeeIds(store) == {store.employees[k].id : k \in 1..Len(store.employees)}

\* every task is assigned to an employee of the store
Consistent(store) ==
    \A i \in 1..Len(store.tasks) : store.tasks[i].assigned_to_id \in EmployeeIds(store)

\* C26: over any sequence of execute_reassignment calls, successful or failing, with
\* arbitrary task ids and assignee ids, the set of task ids and the set of employee ids
\* stay what they were, and a store in which every task's assigned_to_id is the id of an
\* employee of the store stays such a store.
C26_StoreConsistent ==
    [][/\ TaskIds(db') = TaskIds(db)
       /\ EmployeeIds(db') = EmployeeIds(db)
       /\ Consistent(db) => Consistent(db')]_vars

\* a call has rewritten a consistent store and another call has failed on an unknown id
C26_Witness ==
    /\ Consistent(db)
    /\ \E w, v \in Workers :
          /\ Succeeded(w)
          /\ Consistent(local[w].read)
          /\ local[w].read # db
          /\ Failed(v)

(***************************************************************************)
(* Properties of the dashboard                                             *)
(***************************************************************************)

\* the tasks of the store that a call has rewritten
Stamped == {i \in 1..Len(db.tasks) : "last_reassigned" \in DOMAIN db.tasks[i]}

DistinctTaskIds == \A i, j \in 1..Len(db.tasks) : db.tasks[i].id = db.tasks[j].id => i = j

\* the flags a report has for the task with this id
FlagsOf(report, id) ==
    {report.suggestions[j].needs_reassignment :
        j \in {k \in 1..Len(report.suggestions) : report.suggestions[k].task.id = id}}

\* C27 for whatever task ids the store has
C27_AnyTaskIds ==
    (response.kind = "refreshed" /\ Cardinality(Stamped) = 1) =>
        LET T == db.tasks[CHOOSE i \in Stamped : TRUE].id
        IN  /\ FlagsOf(response.before, T) = {TRUE}
            /\ FlagsOf(response.body, T) = {FALSE}
            /\ \A i \in 1..Len(db.tasks) :
                  db.tasks[i].id # T
                      => FlagsOf(response.body, db.tasks[i].id) = FlagsOf(response.before, db.tasks[i].id)
            /\ response.body.needs_reassignment = response.before.needs_reassignment - 1

\* C27: if suggest_reassignments reports needs_reassignment = true for task T and
\* execute_reassignment commits T to a candidate listed in T's recommendations, a new run
\* on the updated store with the same events and date reports needs_reassignment = false
\* for T and the same flag as before for every other task, so that its needs_reassignment
\* count is lower by exactly 1 (tasks being identified by their ids).
C27_CommitClearsFlag == DistinctTaskIds => C27_AnyTaskIds

\* one of two flagged tasks has been committed to a listed candidate and the new report
\* flags the other one alone
C27_Witness ==
    /\ response.kind = "refreshed"
    /\ DistinctTaskIds
    /\ Cardinality(Stamped) = 1
    /\ response.before.needs_reassignment = 2
    /\ response.body.needs_reassignment = 1

\* no employee has more active tasks than max_tasks_per_day when the report is made
StartFits ==
    \A k \in 1..Len(response.body.utilization_snapshot) :
        LET e == response.body.utilization_snapshot[k]
        IN  e.active_task_count <= e.max_tasks_per_day

\* the top recommendation of every flagged task of the report has been committed, and
\* nothing else has
TopCommitted ==
    /\ \A j \in 1..Len(response.body.suggestions) :
          LET s == response.body.suggestions[j]
          IN  (s.needs_reassignment /\ s.recommendations # <<>>) =>
                  \E i \in Stamped :
                      /\ db.tasks[i].id = s.task.id
                      /\ db.tasks[i].assigned_to_id = s.recommendations[1].id
    /\ \A i \in Stamped :
          \E j \in 1..Len(response.body.suggestions) :
              LET s == response.body.suggestions[j]
              IN  /\ s.task.id = db.tasks[i].id
                  /\ s.recommendations # <<>>
                  /\ db.tasks[i].assigned_to_id = s.recommendations[1].id

\* C28: from a store where no employee has more active tasks than max_tasks_per_day,
\* committing the top recommendation of every task flagged in one report, without
\* recomputing the report between the commits, leaves no employee with more active tasks
\* than its max_tasks_per_day.
C28_NoOverload ==
    (/\ response.kind = "reassignments"
     /\ \A w \in Workers : pc[w] = "idle"
     /\ Stamped # {}
     /\ StartFits
     /\ TopCommitted) =>
        \A k \in 1..Len(db.employees) :
            ActiveCount(db.employees[k].id) <= Get(db.employees[k], "max_tasks_per_day", 4)

\* C28 on rosters whose ids are distinct
C28_DistinctIds == DistinctIds => C28_NoOverload

(***************************************************************************)
(* Properties of ingestion                                                 *)
(***************************************************************************)

\* the events on the calendar that no CSV payload has brought
WithoutCsv == SelectSeq(events, LAMBDA e : e.source # "google_csv")

\* a CSV event is on the calendar
CsvLoaded == \E i \in 1..Len(events) : events[i].source = "google_csv"

\* C21: events of the CSV normalizer never match a roster member: with them on the event
\* list, the available / unavailable partition of get_available_employees and every
\* member's is_available and calendar_event_count in get_utilization are what they are
\* without them.
C21_CsvNeverMatches ==
    /\ response.kind = "availability" =>
          LET without == get_available_employees(WithoutCsv, db.employees, response.query_date)
          IN  /\ response.body.available = without.available
              /\ response.body.unavailable = without.unavailable
    /\ response.kind = "utilization" =>
          LET without == get_utilization(WithoutCsv, db.employees, db.tasks, response.query_date)
          IN  \A j \in 1..Len(response.body) :
                  /\ response.body[j].id = without[j].id
                  /\ response.body[j].is_available = without[j].is_available
                  /\ response.body[j].calendar_event_count = without[j].calendar_event_count

\* C21 on rosters whose members all have an email
C21_WithEmails ==
    (\A k \in 1..Len(db.employees) : db.employees[k].email # "") => C21_CsvNeverMatches

\* the titles of CsvTitles that hold one of the keywords ooo, pto, vacation, sick,
\* out of office when lower-cased: PTO, Sick, OOO, Vacation, Out of Office, optout
OofTitles ==
    {<<"P", "T", "O">>,
     <<"S", "i", "c", "k">>,
     <<"O", "O", "O">>,
     <<"V", "a", "c", "a", "t", "i", "o", "n">>,
     <<"O", "u", "t", " ", "o", "f", " ", "O", "f", "f", "i", "c", "e">>,
     <<"o", "p", "t", "o", "u", "t">>}

\* the events a CSV payload of titled rows has given, each with its row
CsvReturned ==
    IF response.kind = "normalize" /\ response.source = "google_csv" /\ response.body.ok
    THEN {<<response.body.value[x[1]], response.payload[x[2]]>> :
             x \in {y \in (1..Len(response.body.value)) \X (1..Len(response.payload)) :
                       /\ response.payload[y[2]].id = response.body.value[y[1]].event_id
                       /\ "summary" \in DOMAIN response.payload[y[2]]
                       /\ response.payload[y[2]].summary \in CsvTitles}}
    ELSE {}

\* C22 as stated: is_all_day iff the start string has exactly 10 characters
C22_AsStated ==
    \A p \in CsvReturned :
        /\ p[1].availability = (IF p[2].summary \in OofTitles THEN "oof" ELSE "busy")
        /\ p[1].is_all_day <=> Len(p[2].start) = 10

\* C22 (amended): every event of normalize_google_csv has availability "oof" iff its
\* title, lower-cased, contains one of the keywords ooo, pto, vacation, sick, out of
\* office as a substring, and "busy" otherwise; its is_all_day is true iff the start
\* string without its leading and trailing whitespace has exactly 10 characters.
C22_KeywordsAndAllDay ==
    \A p \in CsvReturned :
        /\ p[1].availability = (IF p[2].summary \in OofTitles THEN "oof" ELSE "busy")
        /\ p[1].is_all_day <=> Len(strip(p[2].start)) = 10

\* an all-day event that is out of office by a keyword inside a word, from a start with a
\* blank before the date
C22_Witness ==
    \E p \in CsvReturned :
        /\ p[2].summary = <<"o", "p", "t", "o", "u", "t">>
        /\ p[1].availability = "oof"
        /\ p[1].is_all_day
        /\ Len(p[2].start) = 11

\* the events a Microsoft payload has given, each with its item
MicrosoftReturned ==
    IF response.kind = "normalize" /\ response.source = "microsoft" /\ response.body.ok
    THEN {<<response.body.value[x[1]], response.payload[x[2]]>> :
             x \in {y \in (1..Len(response.body.value)) \X (1..Len(response.payload)) :
                       response.payload[y[2]].id = response.body.value[y[1]].event_id}}
    ELSE {}

\* the indices of the extensions that have an employeeId
WithEmployeeId(item) ==
    {i \in 1..Len(item.extensions) : "employeeId" \in DOMAIN item.extensions[i]}

\* the first extension in list order that has an employeeId (an empty object if none has)
Chosen(item) ==
    IF WithEmployeeId(item) = {} THEN <<>>
    ELSE item.extensions[CHOOSE i \in WithEmployeeId(item) : \A j \in WithEmployeeId(item) : i <= j]

\* C23: normalize_microsoft_json takes employee id, email and availability kind from the
\* first extension in list order that has an employeeId and ignores every later one; the
\* organizer's address is the employee_email only when that extension gave no email; the
\* availability is "oof" if showAs is "oof" and "busy" otherwise only when that extension
\* gave no availability kind.
C23_FirstExtension ==
    \A p \in MicrosoftReturned :
        LET e == p[1]
            item == p[2]
            ext == Chosen(item)
        IN  /\ e.employee_id = Get(ext, "employeeId", "")
            /\ e.employee_email =
                  (IF Get(ext, "employeeEmail", "") # "" THEN ext.employeeEmail
                   ELSE IF "organizer" \in DOMAIN item THEN item.organizer.emailAddress.address
                   ELSE "")
            /\ e.availability =
                  (IF Get(ext, "availabilityKind", "") # "" THEN ext.availabilityKind
                   ELSE IF Get(item, "showAs", "busy") = "oof" THEN "oof" ELSE "busy")

\* the first extension with an id has no email and no kind, a later one has both: the
\* event has the first one's id, the organizer's address and the availability of showAs
C23_Witness ==
    \E p \in MicrosoftReturned :
        /\ Len(p[2].extensions) = 2
        /\ p[2].extensions[1] = [employeeId |-> "7"]
        /\ p[2].extensions[2] = [employeeId |-> "8", employeeEmail |-> "h@x", availabilityKind |-> "free"]
        /\ p[1].employee_id = "7"
        /\ p[1].employee_email = "o@x"
        /\ p[1].availability = "oof"

\* the events of the calendar that start on the target date
StartingOnTarget == {i \in 1..Len(events) : DateOf(events[i].start_utc) = target}

\* C29: every event a normalizer returns overlaps its own start date:
\* get_events_for_date for the date of its start_utc returns it, and if it is busy or oof
\* and carries the id or the email of a roster member, that member is unavailable on that
\* date; also for an all-day event whose end is missing or equal to the start.
C29_OverlapsOwnStart ==
    /\ response.kind = "events" =>
          \A i \in StartingOnTarget : to_dict(events[i]) \in Range(response.body)
    /\ response.kind = "availability" =>
          \A i \in StartingOnTarget : \A k \in 1..Len(db.employees) :
              i \in Blocking(db.employees[k]) => InList(response.body.unavailable, db.employees[k])

\* C29 for the events that end after they start, an all-day one on a later date
C29_Spanning ==
    (\A i \in 1..Len(events) :
        /\ events[i].start_utc <= events[i].end_utc
        /\ events[i].is_all_day => DateOf(events[i].start_utc) < DateOf(events[i].end_utc))
    => C29_OverlapsOwnStart

====
